---------------------------- MODULE Spec2Model ----------------------------
(***************************************************************************)
(* A model of the task query engine of mcp_vault.tasks: the task line      *)
(* parser (parser.py), the date resolver (date_resolver.py), the filters   *)
(* (filters.py), the query parser (query_parser.py) and the executor       *)
(* (executor.py).                                                          *)
(*                                                                         *)
(* Text is a sequence of tokens.  A token is a string standing for one     *)
(* character (a space, a bracket, a glyph, a letter) or for one run of     *)
(* characters that no pattern of the code can split (a keyword of the      *)
(* query language, a date payload).  Optional values (Python's None) are   *)
(* sequences of length 0 or 1: None is <<>>, a present value v is <<v>>.   *)
(* A calendar date is a triple <<year, month, day>>.                       *)
(***************************************************************************)
EXTENDS Integers, Sequences, FiniteSets, TLC

VARIABLES
    pc,             \* position of the running call
    today,          \* what date.today() returns
    \* Filter.matches
    mtask, mfilter, matched,
    \* apply_filters / execute_query
    tasks, filters, result, fi,
    \* parse_line / parse_query
    qline, qparts, parsed, qraw, query_source, lines, li, pfilters, errors,
    query, raised,
    \* parse_task_line / extract_emoji_fields
    inText, inTokens, line, content, remaining, fields, iter, stripped, task,
    \* resolve_date
    date_expr, ref_date, resolved,
    \* apply_filters composed with itself and with permuted filters
    perm_filters, reapplied,
    \* read_vault_tasks / query
    vault, file_i, line_i, origins, filter_invalid, caller,
    \* the clock during parse_query
    clock_start, ticks,
    \* find_parent_chain
    headings, heading_target, stack, hi, chain

vars == <<pc, today, mtask, mfilter, matched, tasks, filters, result, fi,
          qline, qparts, parsed, qraw, query_source, lines, li, pfilters,
          errors, query, raised,
          inText, inTokens, line, content, remaining, fields, iter, stripped,
          task, date_expr, ref_date, resolved,
          perm_filters, reapplied,
          vault, file_i, line_i, origins, filter_invalid, caller,
          clock_start, ticks,
          headings, heading_target, stack, hi, chain>>

matchVars == <<mtask, mfilter, matched>>
execVars  == <<tasks, filters, result, fi>>
lineVars  == <<qline, qparts, parsed>>
queryVars == <<qraw, query_source, lines, li, pfilters, errors, query, raised>>
taskVars  == <<inText, inTokens, line, content, remaining, fields, iter,
               stripped, task>>
resolveVars == <<date_expr, ref_date, resolved>>
composeVars == <<perm_filters, reapplied>>
vaultVars == <<vault, file_i, line_i, origins, filter_invalid, caller>>
clockVars == <<clock_start, ticks>>
headingVars == <<headings, heading_target, stack, hi, chain>>

-----------------------------------------------------------------------------
(* Optional values and sequences *)

None == <<>>
Some(v) == <<v>>

BoundedSeq(S, n) == UNION {[1..k -> S] : k \in 0..n}

RECURSIVE Flatten(_)
Flatten(ss) == IF ss = <<>> THEN <<>> ELSE Head(ss) \o Flatten(Tail(ss))

-----------------------------------------------------------------------------
(* Characters *)

SP  == " "
TAB == "\t"
FF  == "\f"     \* a whitespace character other than space, tab and newline
NL  == "\n"

\* str.strip() and the pattern \s: Unicode whitespace
IsSpace(c) == c \in {SP, TAB, FF, NL}

RECURSIVE LStrip(_)
LStrip(s) == IF s # <<>> /\ IsSpace(Head(s)) THEN LStrip(Tail(s)) ELSE s

RECURSIVE RStrip(_)
RStrip(s) ==
    IF s # <<>> /\ IsSpace(s[Len(s)]) THEN RStrip(SubSeq(s, 1, Len(s) - 1)) ELSE s

\* str.strip()
Strip(s) == RStrip(LStrip(s))

\* str.lower() on the words of the model that have an upper-case letter
Lower(w) ==
    CASE w = "DONE"   -> "done"
      [] w = "AND"    -> "and"
      [] w = "OR"     -> "or"
      [] w = "Today"  -> "today"
      [] w = "BEFORE" -> "before"
      [] w = "High"   -> "high"
      [] OTHER        -> w

LowerSeq(s) == [i \in 1..Len(s) |-> Lower(s[i])]

-----------------------------------------------------------------------------
(* Calendar dates: datetime.date *)

IsLeap(y) == (y % 4 = 0 /\ y % 100 # 0) \/ y % 400 = 0

DaysInMonth(y, m) ==
    IF m = 2 THEN (IF IsLeap(y) THEN 29 ELSE 28)
    ELSE IF m \in {4, 6, 9, 11} THEN 30 ELSE 31

\* date(y, m, d) raises ValueError outside these ranges
ValidYMD(ymd) ==
    /\ ymd[1] >= 1 /\ ymd[1] <= 9999
    /\ ymd[2] >= 1 /\ ymd[2] <= 12
    /\ ymd[3] >= 1 /\ ymd[3] <= DaysInMonth(ymd[1], ymd[2])

DateLT(a, b) ==
    \/ a[1] < b[1]
    \/ a[1] = b[1] /\ a[2] < b[2]
    \/ a[1] = b[1] /\ a[2] = b[2] /\ a[3] < b[3]

NextDay(d) ==
    IF d[3] < DaysInMonth(d[1], d[2]) THEN <<d[1], d[2], d[3] + 1>>
    ELSE IF d[2] < 12 THEN <<d[1], d[2] + 1, 1>>
    ELSE <<d[1] + 1, 1, 1>>

PrevDay(d) ==
    IF d[3] > 1 THEN <<d[1], d[2], d[3] - 1>>
    ELSE IF d[2] > 1 THEN <<d[1], d[2] - 1, DaysInMonth(d[1], d[2] - 1)>>
    ELSE <<d[1] - 1, 12, 31>>

\* date + timedelta(days=n)
RECURSIVE AddDays(_, _)
AddDays(d, n) ==
    IF n = 0 THEN d
    ELSE IF n > 0 THEN AddDays(NextDay(d), n - 1)
    ELSE AddDays(PrevDay(d), n + 1)

\* a date_compare whose 'before' and 'after' include the target date
date_compare_Inclusive(task_date, operator, target_date) ==
    IF task_date = None THEN FALSE
    ELSE CASE Lower(operator) = "before" -> ~DateLT(target_date, task_date[1])
           [] Lower(operator) = "after"  -> ~DateLT(task_date[1], target_date)
           [] Lower(operator) = "on"     -> task_date[1] = target_date
           [] OTHER                      -> FALSE

\* date_resolver.date_compare
date_compare(task_date, operator, target_date) ==
    IF task_date = None THEN FALSE
    ELSE LET operator_lower == Lower(operator) IN
         CASE operator_lower = "before" -> DateLT(task_date[1], target_date)
           [] operator_lower = "after"  -> DateLT(target_date, task_date[1])
           [] operator_lower = "on"     -> task_date[1] = target_date
           [] OTHER                     -> FALSE

-----------------------------------------------------------------------------
(* Task records: models.Task *)

MkTask(st, desc, pr, start, sched, due, done, created) ==
    [status |-> st, description |-> desc, priority |-> pr,
     start_date |-> start, scheduled_date |-> sched, due_date |-> due,
     done_date |-> done, created_date |-> created]

\* an is_done that ignores the case of the status character
is_done_AnyCase(t) == t.status \in {"x", "X"}

\* Task.is_done
is_done(t) == t.status = "x"

\* an is_valid that accepts every record
is_valid_Always(t) == TRUE

\* Task.is_valid
is_valid(t) == Strip(t.description) # <<>>

\* a hierarchy that puts 'none' below 'lowest'
PriorityLevel_NoneLast(name) ==
    CASE name = "highest" -> 0
      [] name = "high"    -> 1
      [] name = "medium"  -> 2
      [] name = "low"     -> 4
      [] name = "lowest"  -> 5
      [] OTHER            -> 6

\* models.PRIORITY_HIERARCHY with dict.get(name, 3)
PriorityLevel(name) ==
    CASE name = "highest" -> 0
      [] name = "high"    -> 1
      [] name = "medium"  -> 2
      [] name = "none"    -> 3
      [] name = "low"     -> 4
      [] name = "lowest"  -> 5
      [] OTHER            -> 3

-----------------------------------------------------------------------------
(* Filters: filters.py.  A filter is a record tagged by its class.         *)

StatusFilter(value) == [type |-> "status", value |-> value]
DateFilter(field, operator, target_date) ==
    [type |-> "date", field |-> field, operator |-> operator,
     target_date |-> target_date]
HappensFilter(operator, target_date) ==
    [type |-> "happens", operator |-> operator, target_date |-> target_date]
PriorityFilter(comparison, target_priority) ==
    [type |-> "priority", comparison |-> comparison,
     target_priority |-> target_priority]
HasFilter(field, has) == [type |-> "has", field |-> field, has |-> has]
AndFilter(fs) == [type |-> "and", filters |-> fs]
OrFilter(fs)  == [type |-> "or", filters |-> fs]
NotFilter(f)  == [type |-> "not", filter |-> f]

\* StatusFilter.matches
StatusMatches(f, t) ==
    IF f.value = "done" THEN is_done(t)
    ELSE IF f.value = "not_done" THEN ~is_done(t)
    ELSE FALSE

\* DateFilter._get_task_date: field_map.get(self.field)
DateFilterTaskDate(f, t) ==
    CASE f.field = "due"       -> t.due_date
      [] f.field = "scheduled" -> t.scheduled_date
      [] f.field = "start"     -> t.start_date
      [] f.field = "done"      -> t.done_date
      [] OTHER                 -> None

\* DateFilter.matches
DateMatches(f, t) ==
    date_compare(DateFilterTaskDate(f, t), f.operator, f.target_date)

\* a HappensFilter that also looks at the done date
HappensDates_WithDone(t) ==
    <<t.start_date, t.scheduled_date, t.due_date, t.done_date>>

\* HappensFilter.matches: dates_to_check
HappensDates(t) == <<t.start_date, t.scheduled_date, t.due_date>>

\* a HappensFilter that compares only the earliest of the three dates
HappensMatches_Earliest(f, t) ==
    \E i \in 1..3 :
        /\ HappensDates(t)[i] # None
        /\ \A j \in 1..3 :
              HappensDates(t)[j] # None
                  => ~DateLT(HappensDates(t)[j][1], HappensDates(t)[i][1])
        /\ date_compare(HappensDates(t)[i], f.operator, f.target_date)

\* HappensFilter.matches
HappensMatches(f, t) ==
    \E i \in 1..Len(HappensDates(t)) :
        /\ HappensDates(t)[i] # None
        /\ date_compare(HappensDates(t)[i], f.operator, f.target_date)

\* PriorityFilter.matches
PriorityMatches(f, t) ==
    LET task_priority == IF t.priority = None THEN "none" ELSE t.priority[1]
        task_level    == PriorityLevel(task_priority)
        target_level  == PriorityLevel(f.target_priority)
    IN  CASE f.comparison = "is"     -> task_priority = f.target_priority
          [] f.comparison = "is_not" -> task_priority # f.target_priority
          [] f.comparison = "above"  -> task_level < target_level
          [] f.comparison = "below"  -> task_level > target_level
          [] OTHER                   -> FALSE

\* a field map that backs 'created' by the created date of the task
HasFilterTaskDate_WithCreated(f, t) ==
    CASE f.field = "due"       -> t.due_date
      [] f.field = "scheduled" -> t.scheduled_date
      [] f.field = "start"     -> t.start_date
      [] f.field = "done"      -> t.done_date
      [] f.field = "created"   -> t.created_date
      [] OTHER                 -> None

\* HasFilter._get_task_date
HasFilterTaskDate(f, t) ==
    CASE f.field = "due"       -> t.due_date
      [] f.field = "scheduled" -> t.scheduled_date
      [] f.field = "start"     -> t.start_date
      [] f.field = "done"      -> t.done_date
      [] OTHER                 -> None

\* HasFilter.matches
HasMatches(f, t) ==
    IF f.has THEN HasFilterTaskDate(f, t) # None
    ELSE HasFilterTaskDate(f, t) = None

\* Filter.matches, dispatched on the class of the filter
RECURSIVE Matches(_, _)
Matches(f, t) ==
    CASE f.type = "status"   -> StatusMatches(f, t)
      [] f.type = "date"     -> DateMatches(f, t)
      [] f.type = "happens"  -> HappensMatches(f, t)
      [] f.type = "priority" -> PriorityMatches(f, t)
      [] f.type = "has"      -> HasMatches(f, t)
      [] f.type = "and"      ->
            \A i \in 1..Len(f.filters) : Matches(f.filters[i], t)
      [] f.type = "or"       ->
            \E i \in 1..Len(f.filters) : Matches(f.filters[i], t)
      [] f.type = "not"      -> ~Matches(f.filter, t)
      [] OTHER               -> FALSE


-----------------------------------------------------------------------------
(* Idle values of the variables a specification does not use *)

IdleMatch == mtask = None /\ mfilter = None /\ matched = FALSE
IdleExec  == tasks = <<>> /\ filters = <<>> /\ result = None /\ fi = 0
IdleLine  == qline = <<>> /\ qparts = None /\ parsed = None
IdleQuery ==
    /\ qraw = <<>> /\ query_source = <<>> /\ lines = <<>> /\ li = 0
    /\ pfilters = <<>> /\ errors = <<>> /\ query = None /\ raised = None
IdleResolve == date_expr = <<>> /\ ref_date = None /\ resolved = None
IdleTask  ==
    /\ inText = <<>> /\ inTokens = <<>> /\ line = <<>> /\ content = <<>>
    /\ remaining = <<>> /\ fields = None /\ iter = 0 /\ stripped = <<>>
    /\ task = None
IdleCompose == perm_filters = <<>> /\ reapplied = None
IdleVault ==
    /\ vault = <<>> /\ file_i = 0 /\ line_i = 0 /\ origins = <<>>
    /\ filter_invalid = TRUE /\ caller = ""
IdleClock == clock_start = None /\ ticks = 0
IdleHeading ==
    /\ headings = <<>> /\ heading_target = "" /\ stack = <<>> /\ hi = 0
    /\ chain = None

-----------------------------------------------------------------------------
(* Inputs of the filters *)

D1 == <<2025, 11, 11>>
D2 == <<2025, 11, 12>>
D3 == <<2025, 11, 13>>

OptDates == {None, Some(D1), Some(D2), Some(D3)}
Priorities == {"highest", "high", "medium", "low", "lowest"}
PriorityNames == Priorities \cup {"none"}
Operators == {"before", "after", "on", "BEFORE", "until"}
DateFields == {"due", "scheduled", "start", "done"}
HasFields == DateFields \cup {"created", "cancelled"}

\* tasks that differ in their dates
DateTasks ==
    {MkTask(" ", <<"a">>, None, s, sc, du, dn, cr) :
        s \in OptDates, sc \in OptDates, du \in OptDates,
        dn \in {None, Some(D2)}, cr \in {None, Some(D2)}}

\* tasks that differ in status and priority
PriorityTasks ==
    {MkTask(st, <<"a">>, pr, None, None, du, None, None) :
        st \in {"x", " ", "/", "X"},
        pr \in {None} \cup {Some(p) : p \in Priorities},
        du \in {None, Some(D2)}}

MatchTasks == DateTasks \cup PriorityTasks

LeafFilters ==
    {StatusFilter(v) : v \in {"done", "not_done"}}
    \cup {DateFilter(f, op, D2) : f \in DateFields, op \in Operators}
    \cup {HappensFilter(op, D2) : op \in Operators}
    \cup {PriorityFilter(c, p) :
            c \in {"is", "is_not", "above", "below"}, p \in PriorityNames}
    \cup {HasFilter(f, h) : f \in HasFields, h \in BOOLEAN}

MatchFilters ==
    LeafFilters
    \cup {AndFilter(<<StatusFilter("not_done"), HasFilter("due", TRUE)>>),
          OrFilter(<<StatusFilter("done"), HappensFilter("on", D2)>>),
          NotFilter(StatusFilter("done")),
          AndFilter(<<>>), OrFilter(<<>>)}

-----------------------------------------------------------------------------
(* Filter.matches applied to one task *)

MatchInit ==
    /\ pc = "match"
    /\ today = D2
    /\ mtask \in {Some(t) : t \in MatchTasks}
    /\ mfilter \in {Some(f) : f \in MatchFilters}
    /\ matched = FALSE
    /\ IdleExec /\ IdleLine /\ IdleQuery /\ IdleTask
    /\ IdleResolve
    /\ IdleCompose
    /\ IdleVault
    /\ IdleClock
    /\ IdleHeading

Evaluate ==
    /\ pc = "match"
    /\ matched' = Matches(mfilter[1], mtask[1])
    /\ pc' = "matched"
    /\ UNCHANGED <<today, mtask, mfilter, execVars, lineVars, queryVars, taskVars,
                   resolveVars, composeVars, vaultVars, clockVars,
                   headingVars>>

MatchNext == Evaluate

SpecMatch == MatchInit /\ [][MatchNext]_vars

Ordinal(d) == d[1] * 10000 + d[2] * 100 + d[3]

\* the comparison an operator name stands for, whatever its case
Compares(d, op, target) ==
    CASE op \in {"before", "BEFORE"} -> Ordinal(d) < Ordinal(target)
      [] op \in {"after", "AFTER"}   -> Ordinal(d) > Ordinal(target)
      [] op \in {"on", "ON"}         -> Ordinal(d) = Ordinal(target)
      [] OTHER                       -> FALSE

\* the start, scheduled and due dates a task has
HappensPresent(t) ==
    {x[1] : x \in {t.start_date, t.scheduled_date, t.due_date} \ {None}}

EarliestOf(ds) == CHOOSE d \in ds : \A e \in ds : Ordinal(d) <= Ordinal(e)
LatestOf(ds)   == CHOOSE d \in ds : \A e \in ds : Ordinal(e) <= Ordinal(d)

C12_DateCompare ==
    (pc = "matched" /\ mfilter[1].type = "date")
    => LET f  == mfilter[1]
           td == CASE f.field = "due"       -> mtask[1].due_date
                   [] f.field = "scheduled" -> mtask[1].scheduled_date
                   [] f.field = "start"     -> mtask[1].start_date
                   [] f.field = "done"      -> mtask[1].done_date
       IN  /\ td = None => ~matched
           /\ td # None => matched = Compares(td[1], f.operator, f.target_date)
           /\ f.operator \notin {"before", "after", "on", "BEFORE"} => ~matched

\* a due date equal to the target: 'on' matches
C12_Witness ==
    /\ pc = "matched"
    /\ mfilter[1].type = "date"
    /\ mfilter[1].field = "due"
    /\ mfilter[1].operator = "on"
    /\ mtask[1].due_date = Some(mfilter[1].target_date)
    /\ mtask[1].start_date = Some(D1)
    /\ matched

\* the level of a priority name, and of an absent priority
LevelOf(pr) ==
    CASE pr = Some("highest") -> 0
      [] pr = Some("high")    -> 1
      [] pr = Some("medium")  -> 2
      [] pr = None            -> 3
      [] pr = Some("none")    -> 3
      [] pr = Some("low")     -> 4
      [] pr = Some("lowest")  -> 5

\* C13: with levels highest=0, high=1, medium=2, none=3, low=4, lowest=5 and
\* an absent priority taken as 'none': 'above' matches iff the level of the
\* task is less than the level of the target, 'below' iff it is greater,
\* 'is' iff the names are equal, 'is_not' iff 'is' does not match; exactly
\* one of is, above, below matches.
C13_PriorityOrdering ==
    (pc = "matched" /\ mfilter[1].type = "priority")
    => LET f   == mfilter[1]
           t   == mtask[1]
           lt  == LevelOf(t.priority)
           lf  == LevelOf(Some(f.target_priority))
           is    == Matches(PriorityFilter("is", f.target_priority), t)
           above == Matches(PriorityFilter("above", f.target_priority), t)
           below == Matches(PriorityFilter("below", f.target_priority), t)
       IN  /\ f.comparison = "above"  => matched = (lt < lf)
           /\ f.comparison = "below"  => matched = (lt > lf)
           /\ f.comparison = "is"     => matched = (lt = lf)
           /\ f.comparison = "is_not" => matched = (lt # lf)
           /\ (is /\ ~above /\ ~below) \/ (~is /\ above /\ ~below)
                \/ (~is /\ ~above /\ below)

\* a task without priority is above 'low'
C13_Witness ==
    /\ pc = "matched"
    /\ mfilter[1].type = "priority"
    /\ mfilter[1].comparison = "above"
    /\ mfilter[1].target_priority = "low"
    /\ mtask[1].priority = None
    /\ matched

\* C14: HasFilter(field, present) matches a task iff (its date of that
\* field is present) = present, for due, scheduled, start and done; for
\* 'created' and 'cancelled' the date counts as absent: 'has created date'
\* matches no task and 'no created date' every task, also one with a
\* created date.
C14_HasDate ==
    (pc = "matched" /\ mfilter[1].type = "has")
    => LET f == mfilter[1]
           t == mtask[1]
       IN  /\ f.field = "due"       => matched = ((t.due_date # None) = f.has)
           /\ f.field = "scheduled" => matched = ((t.scheduled_date # None) = f.has)
           /\ f.field = "start"     => matched = ((t.start_date # None) = f.has)
           /\ f.field = "done"      => matched = ((t.done_date # None) = f.has)
           /\ f.field \in {"created", "cancelled"} => matched = ~f.has

\* 'has created date' on a task with a created date: no match
C14_Witness ==
    /\ pc = "matched"
    /\ mfilter[1].type = "has"
    /\ mfilter[1].field = "created"
    /\ mfilter[1].has
    /\ mtask[1].created_date # None
    /\ ~matched

\* C15: StatusFilter('done') matches a task iff its status character is
\* 'x', StatusFilter('not_done') iff it is any other character; every task
\* matches exactly one of the two, and matching leaves the status character
\* of the record as it was.
C15_StatusDone ==
    /\ [](( pc = "matched" /\ mfilter[1].type = "status")
          => /\ mfilter[1].value = "done" => matched = (mtask[1].status = "x")
             /\ mfilter[1].value = "not_done" => matched = (mtask[1].status # "x")
             /\ Matches(StatusFilter("done"), mtask[1])
                    # Matches(StatusFilter("not_done"), mtask[1]))
    /\ [][mtask' = mtask]_vars

\* an upper-case 'X' is not done
C15_Witness ==
    /\ pc = "matched"
    /\ mfilter[1].type = "status"
    /\ mfilter[1].value = "not_done"
    /\ mtask[1].status = "X"
    /\ matched

-----------------------------------------------------------------------------
(* executor.apply_filters *)

MaxTasks == 3
MaxFilters == 2

ExecTasks ==
    {MkTask(" ", <<"a">>, None, None, None, Some(D1), None, None),
     MkTask(" ", <<"b">>, Some("high"), None, Some(D2), Some(D3), None, None),
     MkTask("x", <<"c">>, None, None, None, Some(D1), Some(D2), None),
     MkTask("/", <<"d">>, Some("low"), Some(D3), None, None, None, None),
     MkTask(" ", <<"e">>, None, None, None, None, None, None)}

ExecFilters ==
    {StatusFilter("not_done"),
     DateFilter("due", "before", D2),
     HappensFilter("after", D1),
     PriorityFilter("above", "low"),
     HasFilter("due", TRUE),
     OrFilter(<<StatusFilter("done"), PriorityFilter("is", "high")>>)}

\* a narrowing step that also drops repeated records
ApplyOneFilter_Dedup(res, f) ==
    LET kept == SelectSeq(res, LAMBDA t : Matches(f, t))
        firsts == {i \in 1..Len(kept) : \A j \in 1..(i - 1) : kept[j] # kept[i]}
        RECURSIVE Pick(_)
        Pick(i) == IF i > Len(kept) THEN <<>>
                   ELSE (IF i \in firsts THEN <<kept[i]>> ELSE <<>>) \o Pick(i + 1)
    IN  Pick(1)

\* a narrowing step that also drops the first record it kept
ApplyOneFilter_SkipFirst(res, f) ==
    LET kept == SelectSeq(res, LAMBDA t : Matches(f, t))
    IN  IF kept = <<>> THEN kept ELSE Tail(kept)

\* [task for task in result if filter_obj.matches(task)]
ApplyOneFilter(res, f) == SelectSeq(res, LAMBDA t : Matches(f, t))

ExecInit ==
    /\ pc = "apply_filters"
    /\ today = D2
    /\ tasks \in BoundedSeq(ExecTasks, MaxTasks)
    /\ filters \in BoundedSeq(ExecFilters, MaxFilters)
    /\ result = None
    /\ fi = 0
    /\ IdleMatch /\ IdleLine /\ IdleQuery /\ IdleTask
    /\ IdleResolve
    /\ IdleCompose
    /\ IdleVault
    /\ IdleClock
    /\ IdleHeading

\* result = tasks
ApplyFiltersEnter ==
    /\ pc = "apply_filters"
    /\ result' = Some(tasks)
    /\ fi' = 0
    /\ pc' = "apply_loop"
    /\ UNCHANGED <<today, tasks, filters, matchVars, lineVars, queryVars, taskVars,
                   resolveVars, composeVars, vaultVars, clockVars,
                   headingVars>>

\* one iteration of: for filter_obj in filters
ApplyFiltersStep ==
    /\ pc = "apply_loop"
    /\ fi < Len(filters)
    /\ result' = Some(ApplyOneFilter(result[1], filters[fi + 1]))
    /\ fi' = fi + 1
    /\ UNCHANGED <<pc, today, tasks, filters, matchVars, lineVars, queryVars, taskVars,
                   resolveVars, composeVars, vaultVars, clockVars,
                   headingVars>>

\* return result
ApplyFiltersReturn ==
    /\ pc = "apply_loop"
    /\ fi = Len(filters)
    /\ pc' = "returned"
    /\ UNCHANGED <<today, execVars, matchVars, lineVars, queryVars, taskVars,
                   resolveVars, composeVars, vaultVars, clockVars,
                   headingVars>>

ExecNext == ApplyFiltersEnter \/ ApplyFiltersStep \/ ApplyFiltersReturn

SpecExec == ExecInit /\ [][ExecNext]_vars

\* the tasks of ts that every filter of fs matches
MatchesAll(fs, t) == \A i \in 1..Len(fs) : Matches(fs[i], t)

(* C1: apply_filters returns exactly the input tasks that every filter of   *)
(* the list matches, in input order and with input multiplicity.            *)
C1_ApplyFiltersExact ==
    pc = "returned" =>
        result = Some(SelectSeq(tasks, LAMBDA t : MatchesAll(filters, t)))

\* two filters, a repeated record that survives and a record that is dropped
C1_Witness ==
    /\ pc = "returned"
    /\ Len(filters) = 2
    /\ Len(tasks) = 3
    /\ Len(result[1]) = 2
    /\ result[1][1] = result[1][2]


-----------------------------------------------------------------------------
(* executor.apply_filters as a function, applied twice and to a permuted    *)
(* filter list                                                              *)

RECURSIVE ApplyFrom(_, _, _)
\* the iterations of "for filter_obj in filters" from the i-th filter on
ApplyFrom(res, fs, i) ==
    IF i > Len(fs) THEN res
    ELSE ApplyFrom(ApplyOneFilter(res, fs[i]), fs, i + 1)

\* only the first filter of the list narrows the result
apply_filters_FirstOnly(ts, fs) ==
    IF fs = <<>> THEN ts ELSE ApplyOneFilter(ts, fs[1])

\* result = tasks; for filter_obj in filters: ...; return result
apply_filters(ts, fs) == ApplyFrom(ts, fs, 1)

ComposeTasks ==
    {MkTask(" ", <<"a">>, None, None, None, Some(D1), None, None),
     MkTask(" ", <<"b">>, Some("high"), None, Some(D2), Some(D3), None, None),
     MkTask("x", <<"c">>, Some("low"), None, None, Some(D1), Some(D2), None)}

ComposeFilters ==
    {StatusFilter("not_done"),
     DateFilter("due", "before", D2),
     PriorityFilter("above", "low"),
     NotFilter(HasFilter("scheduled", TRUE))}

\* the rearrangements of a filter list
Permuted(fs) ==
    {[i \in 1..Len(fs) |-> fs[p[i]]] : p \in Permutations(1..Len(fs))}

ComposeInit ==
    /\ pc = "compose"
    /\ today = D2
    /\ tasks \in BoundedSeq(ComposeTasks, MaxTasks)
    /\ filters \in BoundedSeq(ComposeFilters, MaxFilters)
    /\ perm_filters \in Permuted(filters)
    /\ result = None
    /\ fi = 0
    /\ reapplied = None
    /\ IdleMatch /\ IdleLine /\ IdleQuery /\ IdleTask /\ IdleResolve
    /\ IdleVault
    /\ IdleClock
    /\ IdleHeading

\* first = apply_filters(tasks, filters)
ApplyFiltersCall ==
    /\ pc = "compose"
    /\ result' = Some(apply_filters(tasks, filters))
    /\ pc' = "applied"
    /\ UNCHANGED <<today, tasks, filters, fi, composeVars, matchVars,
                   lineVars, queryVars, taskVars, resolveVars, vaultVars,
                   clockVars, headingVars>>

\* apply_filters(first, filters)
ApplyFiltersAgain ==
    /\ pc = "applied"
    /\ reapplied' = Some(apply_filters(result[1], filters))
    /\ pc' = "applied_again"
    /\ UNCHANGED <<today, execVars, perm_filters, matchVars, lineVars,
                   queryVars, taskVars, resolveVars, vaultVars, clockVars,
                   headingVars>>

\* apply_filters(tasks, p(filters))
ApplyFiltersPermuted ==
    /\ pc = "applied"
    /\ reapplied' = Some(apply_filters(tasks, perm_filters))
    /\ pc' = "applied_permuted"
    /\ UNCHANGED <<today, execVars, perm_filters, matchVars, lineVars,
                   queryVars, taskVars, resolveVars, vaultVars, clockVars,
                   headingVars>>

ComposeNext == ApplyFiltersCall \/ ApplyFiltersAgain \/ ApplyFiltersPermuted

SpecCompose == ComposeInit /\ [][ComposeNext]_vars

(* C21: apply_filters is idempotent: filtering its own result again with    *)
(* the same filter list returns that result unchanged.                      *)
C21_Idempotent ==
    pc = "applied_again" => reapplied = result

\* two filters that kept one record of three, filtered once more
C21_Witness ==
    /\ pc = "applied_again"
    /\ Len(filters) = 2
    /\ Len(tasks) = 3
    /\ Len(result[1]) = 1
    /\ reapplied # None

(* C22: apply_filters does not depend on the order of the filters: every    *)
(* permutation of the filter list returns the same tasks in the same order. *)
C22_OrderIndependent ==
    pc = "applied_permuted" => reapplied = result

\* two filters that narrow differently, applied in the other order
C22_Witness ==
    /\ pc = "applied_permuted"
    /\ Len(filters) = 2
    /\ perm_filters # filters
    /\ ApplyOneFilter(tasks, filters[1]) # ApplyOneFilter(tasks, filters[2])
    /\ result[1] # <<>>
    /\ Len(result[1]) < Len(ApplyOneFilter(tasks, filters[1]))
    /\ Len(result[1]) < Len(ApplyOneFilter(tasks, filters[2]))
    /\ reapplied # None


-----------------------------------------------------------------------------
(* date_resolver.resolve_date *)

\* str.split('-') followed by int() on the three parts: the parts of the
\* date words of the model, None where Python raises ValueError
IsoParts(w) ==
    CASE w = "2025-11-11" -> Some(<<2025, 11, 11>>)
      [] w = "2025-11-12" -> Some(<<2025, 11, 12>>)
      [] w = "2025-11-13" -> Some(<<2025, 11, 13>>)
      [] w = "2025-01-01" -> Some(<<2025, 1, 1>>)
      [] w = "2025-02-02" -> Some(<<2025, 2, 2>>)
      [] w = "2024-02-29" -> Some(<<2024, 2, 29>>)
      [] w = "2025-02-30" -> Some(<<2025, 2, 30>>)
      [] w = "2025-13-01" -> Some(<<2025, 13, 1>>)
      [] w = "2025-1-5"   -> Some(<<2025, 1, 5>>)
      [] OTHER            -> None

\* year, month, day = s.split('-'); date(int(year), int(month), int(day))
\* with except (ValueError, AttributeError): return None
ParseIso(s) ==
    IF Len(s) = 1 /\ IsoParts(s[1]) # None /\ ValidYMD(IsoParts(s[1])[1])
    THEN IsoParts(s[1])
    ELSE None

\* RELATIVE_DATE_MAP
RelativeDays(s) ==
    CASE s = <<"today">>                          -> Some(0)
      [] s = <<"tomorrow">>                       -> Some(1)
      [] s = <<"yesterday">>                      -> Some(-1)
      [] s = <<"in", SP, "one", SP, "week">>      -> Some(7)
      [] s = <<"in", SP, "two", SP, "weeks">>     -> Some(14)
      [] OTHER                                    -> None

\* a resolve_date that falls back to the reference date
resolve_date_Fallback(date_str, reference_date) ==
    LET date_str_lower == LowerSeq(Strip(date_str)) IN
    IF RelativeDays(date_str_lower) # None
    THEN Some(AddDays(reference_date, RelativeDays(date_str_lower)[1]))
    ELSE IF ParseIso(Strip(date_str)) # None THEN ParseIso(Strip(date_str))
    ELSE Some(reference_date)

\* resolve_date(date_str, reference_date)
resolve_date(date_str, reference_date) ==
    LET date_str_lower == LowerSeq(Strip(date_str)) IN
    IF RelativeDays(date_str_lower) # None
    THEN Some(AddDays(reference_date, RelativeDays(date_str_lower)[1]))
    ELSE ParseIso(Strip(date_str))

-----------------------------------------------------------------------------
(* resolve_date applied to one expression *)

DateExprs ==
    {<<"today">>, <<SP, "Today", SP>>, <<"tomorrow">>, <<"yesterday", NL>>,
     <<"in", SP, "one", SP, "week">>, <<TAB, "in", SP, "two", SP, "weeks">>,
     <<"in", SP, SP, "one", SP, "week">>, <<"in", SP, "one">>,
     <<"today", SP, "x">>,
     <<"2025-11-12">>, <<SP, "2024-02-29", SP>>, <<"2025-02-30">>,
     <<"2025-13-01">>, <<"2025-1-5">>, <<"2025-11-12", "x">>, <<"x">>, <<>>}

RefDates ==
    {D2, <<2025, 12, 31>>, <<2025, 1, 1>>, <<2024, 2, 28>>, <<2025, 2, 28>>,
     <<2024, 12, 20>>, <<9999, 12, 31>>, <<9999, 12, 20>>, <<1, 1, 1>>}

\* date + timedelta raises OverflowError outside date.min .. date.max
Overflows(s, ref) ==
    LET rel == RelativeDays(LowerSeq(Strip(s)))
    IN  rel # None /\ ~ValidYMD(AddDays(ref, rel[1]))

ResolveInit ==
    /\ pc = "resolve_date"
    /\ today = D2
    /\ date_expr \in DateExprs
    /\ ref_date \in {Some(r) : r \in RefDates}
    /\ resolved = None
    /\ IdleMatch /\ IdleExec /\ IdleLine /\ IdleQuery /\ IdleTask
    /\ IdleCompose
    /\ IdleVault
    /\ IdleClock
    /\ IdleHeading

\* resolve_date returns a date or None
ResolveDateReturn ==
    /\ pc = "resolve_date"
    /\ ~Overflows(date_expr, ref_date[1])
    /\ resolved' = resolve_date(date_expr, ref_date[1])
    /\ pc' = "resolved"
    /\ UNCHANGED <<today, date_expr, ref_date, matchVars, execVars, lineVars,
                   queryVars, taskVars, composeVars, vaultVars, clockVars,
                   headingVars>>

\* the relative date lies outside the range of date: OverflowError
ResolveDateOverflow ==
    /\ pc = "resolve_date"
    /\ Overflows(date_expr, ref_date[1])
    /\ pc' = "resolve_raised"
    /\ UNCHANGED <<today, resolveVars, matchVars, execVars, lineVars,
                   queryVars, taskVars, composeVars, vaultVars, clockVars,
                   headingVars>>

ResolveNext == ResolveDateReturn \/ ResolveDateOverflow

SpecResolve == ResolveInit /\ [][ResolveNext]_vars

\* the number of the day d, counted from 0001-01-01 = 1
DayNumber(d) ==
    LET y == d[1] - 1
        leap == (d[1] % 4 = 0 /\ d[1] % 100 # 0) \/ d[1] % 400 = 0
        before == <<0, 31, 59, 90, 120, 151, 181, 212, 243, 273, 304, 334>>
    IN  y * 365 + (y \div 4) - (y \div 100) + (y \div 400)
        + before[d[2]] + (IF leap /\ d[2] > 2 THEN 1 ELSE 0) + d[3]

\* the days a relative phrase adds to the reference date
PhraseDays(e) ==
    CASE e \in {<<"today">>, <<"Today">>}        -> Some(0)
      [] e = <<"tomorrow">>                      -> Some(1)
      [] e = <<"yesterday">>                     -> Some(-1)
      [] e = <<"in", SP, "one", SP, "week">>     -> Some(7)
      [] e = <<"in", SP, "two", SP, "weeks">>    -> Some(14)
      [] OTHER                                   -> None

\* the date a word of the shape YYYY-MM-DD denotes, if it is a calendar date
Denotes(e) ==
    CASE e = <<"2025-11-12">> -> Some(<<2025, 11, 12>>)
      [] e = <<"2024-02-29">> -> Some(<<2024, 2, 29>>)
      [] OTHER                -> None

\* C16: for every reference date r, resolve_date maps, after trimming and
\* whatever the case, 'today' to r, 'tomorrow' to r + 1 day, 'yesterday' to
\* r - 1 day, 'in one week' to r + 7 days, 'in two weeks' to r + 14 days;
\* every other expression resolves to the date it denotes if it is a valid
\* YYYY-MM-DD calendar date, and to absent otherwise.
C16_ResolveDate ==
    pc = "resolved" =>
        LET e == Strip(date_expr) IN
        IF PhraseDays(e) # None
        THEN /\ resolved # None
             /\ ValidYMD(resolved[1])
             /\ DayNumber(resolved[1]) = DayNumber(ref_date[1]) + PhraseDays(e)[1]
        ELSE resolved = Denotes(e)

-----------------------------------------------------------------------------
(* query_parser: the patterns, on a stripped line s *)

\* the end of the run of whitespace that starts at position i (pattern \s+)
RECURSIVE SkipSpaces(_, _)
SkipSpaces(s, i) ==
    IF i <= Len(s) /\ IsSpace(s[i]) THEN SkipSpaces(s, i + 1) ELSE i

\* the pattern (.+): one or more characters other than a newline
IsDotPlus(s) == s # <<>> /\ \A i \in 1..Len(s) : s[i] # NL

IsWord(s, i, words) == i >= 1 /\ i <= Len(s) /\ Lower(s[i]) \in words

\* STATUS_DONE_PATTERN  ^done$
MatchStatusDone(s) == Len(s) = 1 /\ IsWord(s, 1, {"done"})

\* STATUS_NOT_DONE_PATTERN  ^not done$
MatchStatusNotDone(s) ==
    Len(s) = 3 /\ IsWord(s, 1, {"not"}) /\ s[2] = SP /\ IsWord(s, 3, {"done"})

\* ^<first>\s+<second>\s+(.+)$ : the positions of the second word and of the
\* rest, or None
MatchThree(s, first, second) ==
    LET i2 == SkipSpaces(s, 2)
        i3 == SkipSpaces(s, i2 + 1)
    IN  IF /\ IsWord(s, 1, first)
           /\ i2 > 2 /\ IsWord(s, i2, second)
           /\ i3 > i2 + 1 /\ i3 <= Len(s)
           /\ IsDotPlus(SubSeq(s, i3, Len(s)))
        THEN Some(<<i2, i3>>)
        ELSE None

\* DATE_FILTER_PATTERN  ^(due|scheduled|start|done)\s+(before|after|on)\s+(.+)$
MatchDateFilter(s) ==
    MatchThree(s, {"due", "scheduled", "start", "done"}, {"before", "after", "on"})

\* HAPPENS_FILTER_PATTERN  ^happens\s+(before|after|on)\s+(.+)$
MatchHappensFilter(s) == MatchThree(s, {"happens"}, {"before", "after", "on"})

\* HAS_FILTER_PATTERN ^(has|no)\s+(due|scheduled|start|created|done|cancelled)\s+date$
MatchHasFilter(s) ==
    LET i2 == SkipSpaces(s, 2)
        i3 == SkipSpaces(s, i2 + 1)
    IN  IF /\ IsWord(s, 1, {"has", "no"})
           /\ i2 > 2
           /\ IsWord(s, i2, {"due", "scheduled", "start", "created", "done",
                             "cancelled"})
           /\ i3 > i2 + 1 /\ i3 = Len(s) /\ IsWord(s, i3, {"date"})
        THEN Some(<<i2, i3>>)
        ELSE None

\* PRIORITY_FILTER_PATTERN  ^priority\s+is\s+(.+)$
MatchPriorityFilter(s) == MatchThree(s, {"priority"}, {"is"})

\* the positions k of a ')' at which
\*   ^\( (.+) \) \s+ (AND|OR) \s+ \( (.+) \)$
\* matches with the first group ending right before k
BooleanSplits(s) ==
    {k \in 3..Len(s) :
        LET j  == SkipSpaces(s, k + 1)
            j2 == SkipSpaces(s, j + 1)
        IN  /\ s[1] = "("
            /\ IsDotPlus(SubSeq(s, 2, k - 1))
            /\ s[k] = ")"
            /\ j > k + 1 /\ IsWord(s, j, {"and", "or"})
            /\ j2 > j + 1 /\ j2 <= Len(s) /\ s[j2] = "("
            /\ IsDotPlus(SubSeq(s, j2 + 1, Len(s) - 1))
            /\ s[Len(s)] = ")"}

MaxOf(S) == CHOOSE x \in S : \A y \in S : y <= x
MinOf(S) == CHOOSE x \in S : \A y \in S : x <= y

\* BOOLEAN_EXPR_PATTERN: the first group (.+) is greedy, so the match the
\* pattern returns is the one whose first group is longest
BooleanSplit(s) == MaxOf(BooleanSplits(s))

PriorityLevels == {"highest", "high", "medium", "low", "lowest", "none"}

\* clause.startswith(prefix + ' ') and clause[n:].strip() in the level names
ClauseAfter(clause, prefix) ==
    IF /\ Len(clause) >= 3 /\ clause[1] = prefix /\ clause[2] = SP
       /\ Len(Strip(SubSeq(clause, 3, Len(clause)))) = 1
       /\ Strip(SubSeq(clause, 3, Len(clause)))[1] \in PriorityLevels
    THEN Some(Strip(SubSeq(clause, 3, Len(clause)))[1])
    ELSE None

\* query_parser.parse_priority_clause
parse_priority_clause(clause) ==
    IF Len(clause) = 1 /\ clause[1] \in PriorityLevels
    THEN Some(PriorityFilter("is", clause[1]))
    ELSE IF ClauseAfter(clause, "not") # None
    THEN Some(PriorityFilter("is_not", ClauseAfter(clause, "not")[1]))
    ELSE IF ClauseAfter(clause, "above") # None
    THEN Some(PriorityFilter("above", ClauseAfter(clause, "above")[1]))
    ELSE IF ClauseAfter(clause, "below") # None
    THEN Some(PriorityFilter("below", ClauseAfter(clause, "below")[1]))
    ELSE None

\* a combination that leaves out an operand that did not parse
BooleanOf_SkipFailed(operator, left_filter, right_filter) ==
    IF left_filter = None /\ right_filter = None THEN None
    ELSE IF Lower(operator) = "and"
    THEN Some(AndFilter(left_filter \o right_filter))
    ELSE Some(OrFilter(left_filter \o right_filter))

\* if left_filter is None or right_filter is None: return None; otherwise
\* the AndFilter or OrFilter of the two
BooleanOf(operator, left_filter, right_filter) ==
    IF left_filter = None \/ right_filter = None THEN None
    ELSE IF Lower(operator) = "and"
    THEN Some(AndFilter(<<left_filter[1], right_filter[1]>>))
    ELSE Some(OrFilter(<<left_filter[1], right_filter[1]>>))

\* query_parser.parse_line, with the date date.today() returns
RECURSIVE parse_line(_, _)
parse_line(text, ref) ==
    LET s == Strip(text) IN
    IF MatchStatusDone(s) THEN Some(StatusFilter("done"))
    ELSE IF MatchStatusNotDone(s) THEN Some(StatusFilter("not_done"))
    ELSE IF MatchDateFilter(s) # None THEN
        LET m == MatchDateFilter(s)[1]
            target_date == resolve_date(SubSeq(s, m[2], Len(s)), ref)
        IN  IF target_date = None THEN None
            ELSE Some(DateFilter(Lower(s[1]), Lower(s[m[1]]), target_date[1]))
    ELSE IF MatchHappensFilter(s) # None THEN
        LET m == MatchHappensFilter(s)[1]
            target_date == resolve_date(SubSeq(s, m[2], Len(s)), ref)
        IN  IF target_date = None THEN None
            ELSE Some(HappensFilter(Lower(s[m[1]]), target_date[1]))
    ELSE IF MatchHasFilter(s) # None THEN
        LET m == MatchHasFilter(s)[1]
        IN  Some(HasFilter(Lower(s[m[1]]), Lower(s[1]) = "has"))
    ELSE IF MatchPriorityFilter(s) # None THEN
        LET m == MatchPriorityFilter(s)[1]
        IN  parse_priority_clause(Strip(LowerSeq(SubSeq(s, m[2], Len(s)))))
    ELSE IF BooleanSplits(s) # {} THEN
        LET k  == BooleanSplit(s)
            j  == SkipSpaces(s, k + 1)
            j2 == SkipSpaces(s, j + 1)
            left_filter  == parse_line(SubSeq(s, 2, k - 1), ref)
            right_filter == parse_line(SubSeq(s, j2 + 1, Len(s) - 1), ref)
        IN  BooleanOf(s[j], left_filter, right_filter)
    ELSE None


-----------------------------------------------------------------------------
(* Query lines *)

\* '(left) op (right)'
BoolLine(op, left, right) ==
    <<"(">> \o left \o <<")", SP, op, SP, "(">> \o right \o <<")">>

L_Done      == <<"done">>
L_NotDone   == <<"not", SP, "done">>
L_DueBefore == <<"due", SP, "before", SP, "2025-11-12">>
L_HasDue    == <<"has", SP, "due", SP, "date">>
L_Junk      == <<"invalid", SP, "line">>

\* lines that parse_line accepts
GoodAtoms ==
    {L_Done, <<"DONE">>, L_NotDone, L_DueBefore, L_HasDue,
     <<"done", SP, "on", SP, "today">>,
     <<"start", SP, "after", SP, "tomorrow">>,
     <<"scheduled", SP, "BEFORE", SP, SP, "in", SP, "two", SP, "weeks">>,
     <<"due", TAB, "on", SP, "2025-1-5">>,
     <<"happens", SP, "on", SP, "Today">>,
     <<"happens", SP, "after", SP, "yesterday">>,
     <<"no", SP, "created", SP, SP, "date">>,
     <<"priority", SP, "is", SP, "high">>,
     <<"priority", SP, "is", SP, "above", SP, "none">>,
     <<"priority", SP, "is", SP, "not", SP, SP, "High">>}

\* lines that parse_line rejects
BadAtoms ==
    {L_Junk,
     <<"not", SP, SP, "done">>,
     <<"due", SP, "on", SP, "2025-02-30">>,
     <<"due", SP, "on", SP, "someday">>,
     <<"happens", SP, "today">>,
     <<"happens", SP, "before", SP, "in", SP, "one", SP, SP, "week">>,
     <<"has", SP, "due">>,
     <<"priority", SP, "is", SP, "urgent">>,
     <<"priority", SP, "is", SP, "not", TAB, "high">>}

LineAtoms == GoodAtoms \cup BadAtoms

BoolOps == {"AND", "or"}

NestAtoms == {L_Done, L_NotDone, L_DueBefore, L_HasDue, L_Junk}

\* boolean lines of simple operands
NestedLines == {BoolLine(op, a, b) : op \in BoolOps, a \in NestAtoms, b \in NestAtoms}

Operands == LineAtoms \cup NestedLines

\* lines that are not of the form BoolLine(op, left, right)
OddLines ==
    {<<>>,
     <<"(", "done", ")", "AND", SP, "(", "done", ")">>,
     <<"(", SP, "done", SP, ")", SP, SP, "AND", TAB, "(", "not", SP, "done", ")">>,
     <<"(", "done", ")", SP, "AND", SP, "(", "done", ")", SP, "AND", SP,
       "(", "done", ")">>,
     <<"(", "done", ")", SP, "AND", SP, "(", "done", ")", SP, "OR", SP,
       "(", "invalid", ")">>,
     <<SP, "done", SP>>}

\* '(a) op1 (b) op2 (c)': three parenthesized operands
TripleLines ==
    {<<"(">> \o a \o <<")", SP, op1, SP, "(">> \o b \o <<")", SP, op2, SP, "(">>
        \o c \o <<")">> :
        a \in NestAtoms, b \in NestAtoms, c \in {L_Done, L_HasDue},
        op1 \in BoolOps, op2 \in BoolOps}

-----------------------------------------------------------------------------
(* query_parser.parse_line applied to one line *)

Todays == {D2, <<2025, 12, 31>>}

LineInit ==
    /\ pc = "parse_line"
    /\ today \in Todays
    /\ \/ /\ qparts = None
          /\ qline \in LineAtoms \cup OddLines \cup TripleLines
       \/ \E op \in BoolOps, l \in Operands, r \in Operands :
            /\ qparts = Some([op |-> op, left |-> l, right |-> r])
            /\ qline = BoolLine(op, l, r)
    /\ parsed = None
    /\ IdleMatch /\ IdleExec /\ IdleQuery /\ IdleTask
    /\ IdleResolve
    /\ IdleCompose
    /\ IdleVault
    /\ IdleClock
    /\ IdleHeading

ParseLineCall ==
    /\ pc = "parse_line"
    /\ parsed' = parse_line(qline, today)
    /\ pc' = "line_parsed"
    /\ UNCHANGED <<today, qline, qparts, matchVars, execVars, queryVars, taskVars,
                   resolveVars, composeVars, vaultVars, clockVars,
                   headingVars>>

LineNext == ParseLineCall

SpecLine == LineInit /\ [][LineNext]_vars

(* C4: for all lines e1 and e2 that parse on their own, also when they are  *)
(* themselves parenthesized boolean lines, '(e1) AND (e2)' parses to the    *)
(* And filter of [parse(e1), parse(e2)] and '(e1) OR (e2)' to the Or filter *)
C4_BooleanOfParsedOperands ==
    (pc = "line_parsed" /\ qparts # None) =>
        LET l == parse_line(qparts[1].left, today)
            r == parse_line(qparts[1].right, today)
        IN  (l # None /\ r # None) =>
                parsed = Some(IF Lower(qparts[1].op) = "and"
                              THEN AndFilter(<<l[1], r[1]>>)
                              ELSE OrFilter(<<l[1], r[1]>>))

\* an And or Or filter has two children, and so have those inside it
RECURSIVE TwoChildren(_)
TwoChildren(f) ==
    f.type \in {"and", "or"}
        => /\ Len(f.filters) = 2
           /\ \A i \in 1..Len(f.filters) :
                 f.filters[i] # None /\ TwoChildren(f.filters[i])

\* C18: parse_line returns absent for a parenthesized boolean line when one
\* of its operands does not parse, and for a line with three parenthesized
\* operands; an And or Or filter it returns has exactly two children, none
\* of them absent.
C18_BooleanNeedsTwoParsedOperands ==
    pc = "line_parsed" =>
        /\ (/\ qparts # None
            /\ \/ qparts[1].left \in BadAtoms \/ qparts[1].right \in BadAtoms
               \/ \E o \in {qparts[1].left, qparts[1].right} :
                     \E op \in BoolOps, a \in NestAtoms, b \in NestAtoms :
                        o = BoolLine(op, a, b) /\ L_Junk \in {a, b})
           => parsed = None
        /\ qline \in TripleLines => parsed = None
        /\ parsed # None => TwoChildren(parsed[1])

\* the left operand parses, the right one does not
C18_Witness ==
    /\ pc = "line_parsed"
    /\ qparts # None
    /\ qparts[1].left = L_HasDue
    /\ qparts[1].right = <<"due", SP, "on", SP, "someday">>
    /\ parsed = None

-----------------------------------------------------------------------------
(* query_parser.parse_query and executor.execute_query *)

MaxLines == 3

\* str.split('\n')
RECURSIVE Split(_)
Split(s) ==
    IF \A i \in 1..Len(s) : s[i] # NL THEN <<s>>
    ELSE LET k == MinOf({i \in 1..Len(s) : s[i] = NL})
         IN  <<SubSeq(s, 1, k - 1)>> \o Split(SubSeq(s, k + 1, Len(s)))

\* sep.join(parts)
RECURSIVE Join(_, _)
Join(parts, sep) ==
    IF parts = <<>> THEN <<>>
    ELSE IF Len(parts) = 1 THEN parts[1]
    ELSE parts[1] \o sep \o Join(Tail(parts), sep)

\* f"Could not parse line: {line}"
ErrorEntry(l) == <<"Could not parse line: ">> \o l

\* a parse_query that keeps the filters of the lines that parsed
QueryOnError_Partial(fs, errs) ==
    [filters |-> fs, error |-> Some(Join(errs, <<"; ">>))]

\* Query(filters=[], error="; ".join(errors))
QueryOnError(fs, errs) ==
    [filters |-> <<>>, error |-> Some(Join(errs, <<"; ">>))]

\* a parse_query that reports a query without filters as an error
QueryOnSuccess_EmptyIsError(fs) ==
    IF fs = <<>> THEN [filters |-> <<>>, error |-> Some(<<"Empty query">>)]
    ELSE [filters |-> fs, error |-> None]

\* Query(filters=filters)
QueryOnSuccess(fs) == [filters |-> fs, error |-> None]

\* an execute_query that does not look at the error
HasParseError_Never(q) == FALSE

\* if query.error is not None
HasParseError(q) == q.error # None

\* the lines a query text is written from
QueryLines ==
    {<<>>, <<SP>>,
     L_Done,
     <<SP, "not", SP, "done", TAB>>,
     <<"happens", SP, "on", SP, "today">>,
     <<"priority", SP, "is", SP, "above", SP, "none">>,
     BoolLine("OR", L_Done, L_HasDue),
     L_Junk,
     <<"due", SP, "on", SP, "2025-02-30", SP>>,
     <<"happens", SP, "after", SP, "someday">>}

T_a == MkTask(" ", <<"a">>, None, None, None, Some(D1), None, None)
T_b == MkTask(" ", <<"b">>, Some("high"), None, Some(D2), Some(D3), None, None)
T_c == MkTask("x", <<"c">>, None, None, None, Some(D1), Some(D2), None)
T_e == MkTask(" ", <<"e">>, None, None, None, None, None, None)

QueryTaskLists == {<<>>, <<T_a, T_b, T_c, T_b>>, <<T_c, T_e>>}

QueryInit ==
    /\ pc = "execute_query"
    /\ today = D2
    /\ qraw \in BoundedSeq(QueryLines, MaxLines)
    /\ query_source = Join(qraw, <<NL>>)
    /\ tasks \in QueryTaskLists
    /\ lines = <<>> /\ li = 0 /\ pfilters = <<>> /\ errors = <<>>
    /\ query = None /\ raised = None
    /\ filters = <<>> /\ result = None /\ fi = 0
    /\ IdleMatch /\ IdleLine /\ IdleTask
    /\ IdleResolve
    /\ IdleCompose
    /\ IdleVault
    /\ IdleClock
    /\ IdleHeading

\* query = parse_query(query_source): lines = query_source.strip().split('\n')
ParseQueryEnter ==
    /\ pc = "execute_query"
    /\ lines' = Split(Strip(query_source))
    /\ li' = 0 /\ pfilters' = <<>> /\ errors' = <<>>
    /\ pc' = "parse_loop"
    /\ UNCHANGED <<today, qraw, query_source, query, raised, matchVars,
                   execVars, lineVars, taskVars,
                   resolveVars, composeVars, vaultVars, clockVars,
                   headingVars>>

\* for line in lines: an empty line is skipped
ParseQuerySkip ==
    /\ pc = "parse_loop"
    /\ li < Len(lines)
    /\ Strip(lines[li + 1]) = <<>>
    /\ li' = li + 1
    /\ UNCHANGED <<pc, today, qraw, query_source, lines, pfilters, errors,
                   query, raised, matchVars, execVars, lineVars, taskVars,
                   resolveVars, composeVars, vaultVars, clockVars,
                   headingVars>>

\* for line in lines: filters.append(filter_obj)
ParseQueryFilter ==
    /\ pc = "parse_loop"
    /\ li < Len(lines)
    /\ Strip(lines[li + 1]) # <<>>
    /\ parse_line(Strip(lines[li + 1]), today) # None
    /\ pfilters' = Append(pfilters, parse_line(Strip(lines[li + 1]), today)[1])
    /\ li' = li + 1
    /\ UNCHANGED <<pc, today, qraw, query_source, lines, errors, query, raised,
                   matchVars, execVars, lineVars, taskVars,
                   resolveVars, composeVars, vaultVars, clockVars,
                   headingVars>>

\* for line in lines: errors.append(...)
ParseQueryError ==
    /\ pc = "parse_loop"
    /\ li < Len(lines)
    /\ Strip(lines[li + 1]) # <<>>
    /\ parse_line(Strip(lines[li + 1]), today) = None
    /\ errors' = Append(errors, ErrorEntry(Strip(lines[li + 1])))
    /\ li' = li + 1
    /\ UNCHANGED <<pc, today, qraw, query_source, lines, pfilters, query,
                   raised, matchVars, execVars, lineVars, taskVars,
                   resolveVars, composeVars, vaultVars, clockVars,
                   headingVars>>

\* if errors: return Query(filters=[], error=...)
ParseQueryReturnError ==
    /\ pc = "parse_loop"
    /\ li = Len(lines)
    /\ errors # <<>>
    /\ query' = Some(QueryOnError(pfilters, errors))
    /\ pc' = "parsed"
    /\ UNCHANGED <<today, qraw, query_source, lines, li, pfilters, errors,
                   raised, matchVars, execVars, lineVars, taskVars,
                   resolveVars, composeVars, vaultVars, clockVars,
                   headingVars>>

\* return Query(filters=filters)
ParseQueryReturn ==
    /\ pc = "parse_loop"
    /\ li = Len(lines)
    /\ errors = <<>>
    /\ query' = Some(QueryOnSuccess(pfilters))
    /\ pc' = "parsed"
    /\ UNCHANGED <<today, qraw, query_source, lines, li, pfilters, errors,
                   raised, matchVars, execVars, lineVars, taskVars,
                   resolveVars, composeVars, vaultVars, clockVars,
                   headingVars>>

\* raise ValueError(f"Query parse error: {query.error}")
ExecuteQueryRaise ==
    /\ pc = "parsed"
    /\ HasParseError(query[1])
    /\ raised' = Some(<<"Query parse error: ">> \o query[1].error[1])
    /\ pc' = "raised"
    /\ UNCHANGED <<today, qraw, query_source, lines, li, pfilters, errors,
                   query, matchVars, execVars, lineVars, taskVars,
                   resolveVars, composeVars, vaultVars, clockVars,
                   headingVars>>

\* return apply_filters(tasks, query.filters)
ExecuteQueryApply ==
    /\ pc = "parsed"
    /\ ~HasParseError(query[1])
    /\ filters' = query[1].filters
    /\ pc' = "apply_filters"
    /\ UNCHANGED <<today, tasks, result, fi, queryVars, matchVars, lineVars,
                   taskVars,
                   resolveVars, composeVars, vaultVars, clockVars,
                   headingVars>>

QueryNext ==
    \/ ParseQueryEnter \/ ParseQuerySkip \/ ParseQueryFilter \/ ParseQueryError
    \/ ParseQueryReturnError \/ ParseQueryReturn
    \/ ExecuteQueryRaise \/ ExecuteQueryApply
    \/ ApplyFiltersEnter \/ ApplyFiltersStep \/ ApplyFiltersReturn

SpecQuery == QueryInit /\ [][QueryNext]_vars

\* the non-empty lines of the query text, trimmed, in line order
NonEmptyLines == SelectSeq([i \in 1..Len(qraw) |-> Strip(qraw[i])], LAMBDA l : l # <<>>)

\* those that parse_line rejects
FailingLines == SelectSeq(NonEmptyLines, LAMBDA l : parse_line(l, today) = None)

\* 'Could not parse line: <line>' for every line of ls, joined by '; '
RECURSIVE ErrorText(_)
ErrorText(ls) ==
    IF Len(ls) = 1 THEN <<"Could not parse line: ">> \o ls[1]
    ELSE ErrorText(SubSeq(ls, 1, Len(ls) - 1))
            \o <<"; ", "Could not parse line: ">> \o ls[Len(ls)]

(* C2: parse_query never returns both an error and a non-empty filter list; *)
(* if a non-empty line fails, filters is empty and error is the '; '-joined *)
(* list of 'Could not parse line: <line>', one per failing line in line     *)
(* order; otherwise error is absent and filters holds one filter per        *)
(* non-empty line, in line order.                                           *)
C2_ParseQueryAllOrNothing ==
    query # None =>
        /\ ~(query[1].error # None /\ query[1].filters # <<>>)
        /\ FailingLines # <<>> =>
                /\ query[1].filters = <<>>
                /\ query[1].error = Some(ErrorText(FailingLines))
        /\ FailingLines = <<>> =>
                /\ query[1].error = None
                /\ query[1].filters =
                        [i \in 1..Len(NonEmptyLines) |->
                            parse_line(NonEmptyLines[i], today)[1]]

\* three non-empty lines: the outer two fail, the middle one parses
C2_Witness ==
    /\ query # None
    /\ Len(NonEmptyLines) = 3
    /\ Len(FailingLines) = 2
    /\ parse_line(NonEmptyLines[2], today) # None
    /\ FailingLines[1] # FailingLines[2]
    /\ query[1].filters = <<>>

(* C3: execute_query raises ValueError('Query parse error: ...') whenever   *)
(* parse_query reports an error, applies no filter and returns no task list *)
(* then; it returns a result only when every non-empty line parsed.         *)
C3_ExecuteRaisesOnError ==
    /\ (query # None /\ query[1].error # None) =>
            /\ pc \in {"parsed", "raised"}
            /\ result = None /\ fi = 0 /\ filters = <<>>
    /\ pc = "raised" =>
            /\ query # None /\ query[1].error # None
            /\ raised = Some(<<"Query parse error: ">> \o query[1].error[1])
    /\ (result # None \/ pc \in {"apply_filters", "apply_loop", "returned"}) =>
            /\ FailingLines = <<>>
            /\ raised = None

\* a query with a line that parses and a line that does not, over a
\* non-empty task list, has raised
C3_Witness ==
    /\ pc = "raised"
    /\ tasks # <<>>
    /\ Len(FailingLines) = 1
    /\ Len(NonEmptyLines) = 2
    /\ pfilters # <<>>


\* t occurs in s as a block
ContainsSeq(s, t) ==
    \E i \in 1..(Len(s) - Len(t) + 1) : SubSeq(s, i, i + Len(t) - 1) = t

\* lines of a date or happens form whose expression names no date
BadDateLines ==
    {<<"due", SP, "on", SP, "2025-02-30">>,
     <<"happens", SP, "after", SP, "someday">>}

\* every date and happens filter in f has a calendar date as target
RECURSIVE TargetsPresent(_)
TargetsPresent(f) ==
    CASE f.type \in {"date", "happens"} ->
            f.target_date # None /\ ValidYMD(f.target_date)
      [] f.type \in {"and", "or"} ->
            \A i \in 1..Len(f.filters) : TargetsPresent(f.filters[i])
      [] OTHER -> TRUE

\* C17: a line '<due|scheduled|start|done> <before|after|on> <expr>' or
\* 'happens <before|after|on> <expr>' whose <expr> resolves to no date does
\* not parse: the whole query fails, naming the line, and no date or happens
\* filter of a successfully parsed query has an absent target date.
C17_UnresolvedDateFails ==
    query # None =>
        /\ \A i \in 1..Len(NonEmptyLines) :
              NonEmptyLines[i] \in BadDateLines
                  => /\ query[1].error # None
                     /\ query[1].filters = <<>>
                     /\ ContainsSeq(query[1].error[1], ErrorEntry(NonEmptyLines[i]))
                     /\ result = None
        /\ query[1].error = None
              => \A i \in 1..Len(query[1].filters) :
                    TargetsPresent(query[1].filters[i])

\* 'happens on today' parses, 'happens after someday' does not: the query
\* fails
C17_Witness ==
    /\ pc = "raised"
    /\ Len(NonEmptyLines) = 2
    /\ NonEmptyLines[1] = <<"happens", SP, "on", SP, "today">>
    /\ NonEmptyLines[2] = <<"happens", SP, "after", SP, "someday">>
    /\ query[1].filters = <<>>
    /\ pfilters = <<HappensFilter("on", today)>>

\* C19: a query text without a non-empty line (empty, whitespace, blank
\* lines) parses to an empty filter list without error, and executing it
\* returns every input task, unchanged and in input order.
C19_EmptyQueryMatchesAll ==
    NonEmptyLines = <<>> =>
        /\ query # None => query[1] = [filters |-> <<>>, error |-> None]
        /\ pc # "raised" /\ raised = None
        /\ pc = "returned" => result = Some(tasks)

\* three blank lines over four tasks
C19_Witness ==
    /\ pc = "returned"
    /\ Len(qraw) = 3
    /\ qraw[1] = <<SP>> /\ qraw[2] = <<>>
    /\ NonEmptyLines = <<>>
    /\ Len(tasks) = 4
    /\ result = Some(tasks)

\* C20: a query of several lines is the conjunction of its line filters:
\* for lines a and b that parse, executing 'a\nb' returns what executing
\* '(a) AND (b)' returns, and apply_filters(tasks, [f1..fn]) returns what
\* apply_filters(tasks, [AndFilter([f1..fn])]) returns.
C20_LinesAreConjunction ==
    pc = "returned" =>
        /\ result = Some(SelectSeq(tasks, LAMBDA t : Matches(AndFilter(filters), t)))
        /\ Len(NonEmptyLines) = 2 =>
              LET both == parse_line(BoolLine("AND", NonEmptyLines[1],
                                              NonEmptyLines[2]), today)
              IN  /\ both # None
                  /\ result = Some(SelectSeq(tasks, LAMBDA t : Matches(both[1], t)))

-----------------------------------------------------------------------------
(* models.py: the task line patterns.  A glyph is named by its code point. *)

G_HIGHEST == "U+1F53A"
G_HIGH    == "U+23EB"
G_MEDIUM  == "U+1F53C"
G_LOW     == "U+1F53D"
G_LOWEST  == "U+23EC"
G_DONE    == "U+2705"
G_SCHED1  == "U+23F3"
G_SCHED2  == "U+231B"
G_DUE1    == "U+1F4C5"
G_DUE2    == "U+1F4C6"
G_DUE3    == "U+1F5D3"
G_START   == "U+1F6EB"
G_CREATED == "U+2795"
VS16      == "U+FE0F"

\* the words of the model that are longer than one character and have the
\* shape \d{4}-\d{2}-\d{2}
IsPayload(w) ==
    w \in {"2025-11-11", "2025-11-12", "2025-11-13", "2025-01-01", "2025-02-02",
           "2024-02-29", "2025-02-30", "2025-13-01"}

\* the pattern '.' on a token: exactly one character, not a newline
IsOneChar(w) == ~IsPayload(w) /\ w # "2025-1-5" /\ w # NL

PriorityGlyphs == {G_HIGHEST, G_HIGH, G_MEDIUM, G_LOW, G_LOWEST}

\* a due date pattern without the alternate glyphs
DueGlyphs_CanonicalOnly == {G_DUE1}

DoneGlyphs    == {G_DONE}
\* a scheduled pattern that also accepts a calendar glyph
SchedGlyphs_WithCalendar == {G_SCHED1, G_SCHED2, G_DUE1}

SchedGlyphs   == {G_SCHED1, G_SCHED2}
DueGlyphs     == {G_DUE1, G_DUE2, G_DUE3}
StartGlyphs   == {G_START}
CreatedGlyphs == {G_CREATED}

\* the fields in the order in which extract_emoji_fields tries their patterns
FieldOrder ==
    <<"priority", "done_date", "scheduled_date", "due_date", "start_date",
      "created_date">>

FieldGlyphs(kind) ==
    CASE kind = "priority"       -> PriorityGlyphs
      [] kind = "done_date"      -> DoneGlyphs
      [] kind = "scheduled_date" -> SchedGlyphs
      [] kind = "due_date"       -> DueGlyphs
      [] kind = "start_date"     -> StartGlyphs
      [] kind = "created_date"   -> CreatedGlyphs

\* PRIORITY_REGEX.search(s): a priority glyph, an optional variation
\* selector, the end of the text; the position where the match
\* starts, or None
SearchPriority(s) ==
    LET n == Len(s) IN
    IF n >= 1 /\ s[n] \in PriorityGlyphs THEN Some(n)
    ELSE IF n >= 2 /\ s[n] = VS16 /\ s[n - 1] \in PriorityGlyphs THEN Some(n - 1)
    ELSE None

\* the last position before i that does not hold a space character ' '
RECURSIVE BeforeSpaces(_, _)
BeforeSpaces(s, i) ==
    IF i >= 1 /\ s[i] = SP THEN BeforeSpaces(s, i - 1) ELSE i

\* <FIELD>_DATE_REGEX.search(s): a glyph of the field, an optional variation
\* selector, spaces, a payload, the end of the text; the position where the
\* match starts, or None
SearchDate(s, glyphs) ==
    LET n == Len(s)
        j == BeforeSpaces(s, n - 1)
    IN  IF n >= 2 /\ IsPayload(s[n]) /\ j >= 1
        THEN IF s[j] \in glyphs THEN Some(j)
             ELSE IF j >= 2 /\ s[j] = VS16 /\ s[j - 1] \in glyphs THEN Some(j - 1)
             ELSE None
        ELSE None

\* the search of the pattern of one field
SearchField(kind, s) ==
    IF kind = "priority" THEN SearchPriority(s)
    ELSE SearchDate(s, FieldGlyphs(kind))

\* PRIORITY_EMOJI_MAP.get(emoji, 'none')
priority_emoji_to_name(emoji) ==
    CASE emoji = G_HIGHEST -> "highest"
      [] emoji = G_HIGH    -> "high"
      [] emoji = G_MEDIUM  -> "medium"
      [] emoji = G_LOW     -> "low"
      [] emoji = G_LOWEST  -> "lowest"
      [] OTHER             -> "none"

\* a parse_date that does not validate the calendar date
parse_date_Unchecked(date_str) == IsoParts(date_str)

\* parser.parse_date
parse_date(date_str) ==
    IF IsoParts(date_str) # None /\ ValidYMD(IsoParts(date_str)[1])
    THEN IsoParts(date_str)
    ELSE None

\* the value a matched token gives its field
FieldValue(kind, s, start) ==
    IF kind = "priority" THEN Some(priority_emoji_to_name(s[start]))
    ELSE parse_date(s[Len(s)])

\* a slot check that lets a filled slot be taken again
SlotFree_Always(flds, kind) == TRUE

\* fields[kind] is None
SlotFree(flds, kind) == flds[kind] = None

\* a branch that is taken whenever its pattern matches
Takes_Overwrite(kind, s, flds) == SearchField(kind, s) # None

\* match and fields[kind] is None
Takes(kind, s, flds) == SearchField(kind, s) # None /\ SlotFree(flds, kind)

\* the first field, in the order of the code, whose branch is taken; 0 if none
FirstTaking(s, flds) ==
    IF \E i \in 1..Len(FieldOrder) : Takes(FieldOrder[i], s, flds)
    THEN MinOf({i \in 1..Len(FieldOrder) : Takes(FieldOrder[i], s, flds)})
    ELSE 0

EmptyFields ==
    [priority |-> None, done_date |-> None, scheduled_date |-> None,
     due_date |-> None, start_date |-> None, created_date |-> None]

\* for _ in range(20)
MaxIterations == 20

-----------------------------------------------------------------------------
\* models.TASK_REGEX: leading whitespace and '>' characters, a list marker
\* ('-', '*', '+', or digits and '.' or ')'), spaces, '[', one character,
\* ']', spaces, the content

Digits == {"0", "1", "2", "3", "4", "5", "6", "7", "8", "9"}

\* the end of the run, starting at i, of characters of the set cs
RECURSIVE RunEnd(_, _, _)
RunEnd(s, i, cs) == IF i <= Len(s) /\ s[i] \in cs THEN RunEnd(s, i + 1, cs) ELSE i

\* what may stand between the list marker and the bracket, were it \s+
GapChars_AnySpace == {SP, TAB, FF}

\* ' +' between the list marker and the bracket
GapChars == {SP}

\* [\s\t>]*
IndentChars == {SP, TAB, FF, NL, ">"}

\* TASK_REGEX.match(line): the status character and the content, or None
TaskRegexMatch(s) ==
    LET i == RunEnd(s, 1, IndentChars)
        d == RunEnd(s, i, Digits)
        m == IF i <= Len(s) /\ s[i] \in {"-", "*", "+"} THEN i + 1
             ELSE IF d > i /\ d <= Len(s) /\ s[d] \in {".", ")"} THEN d + 1
             ELSE 0
        g == RunEnd(s, m, GapChars)
        c == RunEnd(s, g + 3, {SP})
        \* '$' also matches before a newline that ends the text
        e == IF Len(s) >= 1 /\ s[Len(s)] = NL THEN Len(s) - 1 ELSE Len(s)
    IN  IF /\ m > 0
           /\ g > m
           /\ g + 2 <= e
           /\ s[g] = "[" /\ IsOneChar(s[g + 1]) /\ s[g + 2] = "]"
           /\ \A k \in c..e : s[k] # NL
        THEN Some([status |-> s[g + 1], content |-> SubSeq(s, c, e)])
        ELSE None

\* a guard that rejects only the opening bracket
RejectedStatus_OnlyOpen(c) == c = "["

\* if status_char in ['[', ']']
RejectedStatus(c) == c \in {"[", "]"}


-----------------------------------------------------------------------------
(* Task lines *)

MaxTokens == 3

\* metadata tokens: a glyph, an optional variation selector, and for a date
\* field optional spaces and a payload
MetaTokens ==
    {<<G_HIGHEST>>,
     <<G_LOW, VS16>>,
     <<G_DONE, SP, "2025-11-11">>,
     <<G_SCHED1, SP, "2025-11-12">>,
     <<G_SCHED2, VS16, SP, SP, "2025-02-30">>,
     <<G_DUE1, SP, "2025-11-13">>,
     <<G_DUE2, "2025-01-01">>,
     <<G_DUE3, VS16, SP, "2025-13-01">>,
     <<G_START, SP, "2024-02-29">>,
     <<G_CREATED, SP, "2025-02-02">>}

\* the text before the trailing tokens, and what separates the tokens from
\* it and from each other
TextSeps ==
    {<< <<>>, <<SP>> >>,
     << <<"a">>, <<>> >>,
     << <<"a", SP, G_DUE1, SP, "2025-11-11", SP, "b">>, <<SP>> >>,
     << <<"a", SP, G_HIGH, "b", SP, G_DUE1>>, <<>> >>,
     << <<"2025-11-12">>, <<>> >>,
     << <<"a", SP, G_START, SP, "2025-11-11">>, <<SP>> >>}

\* the text, then every token after the separator
TaskContent(text, sep, toks) ==
    text \o Flatten([i \in 1..Len(toks) |-> sep \o toks[i]])

Indents == {<<>>, <<SP, SP>>, <<TAB, ">", SP>>, <<FF>>, <<"a", SP>>}
Markers == {<<"-">>, <<"*">>, <<"+">>, <<"1", ".">>, <<"1", "2", ")">>,
            <<"1">>, <<".">>, <<>>}
Gaps    == {<<>>, <<SP>>, <<SP, SP>>, <<TAB>>}
Boxes   == {<<"[", SP, "]">>, <<"[", "x", "]">>, <<"[", "[", "]">>,
            <<"[", "]", "]">>, <<"[", "]">>, <<"[", "x", "a", "]">>, <<>>}
Tails   == {<<>>, <<"a">>, <<SP, "a", SP>>, <<"a", "]", "]">>, <<"a", NL>>,
            <<NL, "a">>}

-----------------------------------------------------------------------------
(* parser.parse_task_line and parser.extract_emoji_fields *)

TaskInit ==
    /\ pc = "parse_task_line"
    /\ today = D2
    /\ \/ \E ind \in Indents, mk \in Markers, gap \in Gaps, box \in Boxes,
             tail \in Tails :
            /\ inText = tail
            /\ inTokens = <<>>
            /\ line = ind \o mk \o gap \o box \o tail
       \/ \E ts \in TextSeps, toks \in BoundedSeq(MetaTokens, MaxTokens) :
            /\ inText = ts[1]
            /\ inTokens = toks
            /\ line = <<"-", SP, "[", SP, "]", SP>> \o TaskContent(ts[1], ts[2], toks)
    /\ content = <<>> /\ remaining = <<>> /\ fields = None /\ iter = 0
    /\ stripped = <<>> /\ task = None
    /\ IdleMatch /\ IdleExec /\ IdleLine /\ IdleQuery
    /\ IdleResolve
    /\ IdleCompose
    /\ IdleVault
    /\ IdleClock
    /\ IdleHeading

\* if not match: return None
TaskNoMatch ==
    /\ pc = "parse_task_line"
    /\ TaskRegexMatch(line) = None
    /\ task' = None
    /\ pc' = "done"
    /\ UNCHANGED <<today, inText, inTokens, line, content, remaining, fields,
                   iter, stripped, matchVars, execVars, lineVars, queryVars,
                   resolveVars, composeVars, vaultVars, clockVars,
                   headingVars>>

\* if status_char in ['[', ']']: return None
TaskRejectBracket ==
    /\ pc = "parse_task_line"
    /\ TaskRegexMatch(line) # None
    /\ RejectedStatus(TaskRegexMatch(line)[1].status)
    /\ task' = None
    /\ pc' = "done"
    /\ UNCHANGED <<today, inText, inTokens, line, content, remaining, fields,
                   iter, stripped, matchVars, execVars, lineVars, queryVars,
                   resolveVars, composeVars, vaultVars, clockVars,
                   headingVars>>

\* extract_emoji_fields(content): remaining = content.strip()
ExtractEnter ==
    /\ pc = "parse_task_line"
    /\ TaskRegexMatch(line) # None
    /\ ~RejectedStatus(TaskRegexMatch(line)[1].status)
    /\ content' = TaskRegexMatch(line)[1].content
    /\ remaining' = Strip(TaskRegexMatch(line)[1].content)
    /\ fields' = Some(EmptyFields)
    /\ iter' = 0
    /\ stripped' = <<>>
    /\ pc' = "extract"
    /\ UNCHANGED <<today, inText, inTokens, line, task, matchVars, execVars,
                   lineVars, queryVars,
                   resolveVars, composeVars, vaultVars, clockVars,
                   headingVars>>

\* an iteration that the range of the loop does not limit
ExtractField_Unbounded(i) ==
    LET kind  == FieldOrder[i]
        start == SearchField(kind, remaining)[1]
        value == FieldValue(kind, remaining, start)
    IN  /\ pc = "extract"
        /\ remaining # <<>>
        /\ FirstTaking(remaining, fields[1]) = i
        /\ fields' = Some([fields[1] EXCEPT ![kind] = value])
        /\ remaining' = Strip(SubSeq(remaining, 1, start - 1))
        /\ stripped' = Append(stripped,
                              [kind |-> kind, value |-> value,
                               text |-> SubSeq(remaining, start, Len(remaining))])
        /\ iter' = iter + 1
        /\ UNCHANGED <<pc, today, inText, inTokens, line, content, task,
                       matchVars, execVars, lineVars, queryVars,
                       resolveVars, composeVars, vaultVars, clockVars,
                   headingVars>>

\* one iteration of the loop that takes the branch of the field FieldOrder[i]:
\* the field gets the value of the token and the token is cut off
ExtractField(i) ==
    LET kind  == FieldOrder[i]
        start == SearchField(kind, remaining)[1]
        value == FieldValue(kind, remaining, start)
    IN  /\ pc = "extract"
        /\ iter < MaxIterations
        /\ remaining # <<>>
        /\ FirstTaking(remaining, fields[1]) = i
        /\ fields' = Some([fields[1] EXCEPT ![kind] = value])
        /\ remaining' = Strip(SubSeq(remaining, 1, start - 1))
        /\ stripped' = Append(stripped,
                              [kind |-> kind, value |-> value,
                               text |-> SubSeq(remaining, start, Len(remaining))])
        /\ iter' = iter + 1
        /\ UNCHANGED <<pc, today, inText, inTokens, line, content, task,
                       matchVars, execVars, lineVars, queryVars,
                   resolveVars, composeVars, vaultVars, clockVars,
                   headingVars>>

ExtractPriority == pc = "extract" /\ ExtractField(1)
ExtractDone == pc = "extract" /\ ExtractField(2)
ExtractScheduled == pc = "extract" /\ ExtractField(3)
ExtractDue == pc = "extract" /\ ExtractField(4)
ExtractStart == pc = "extract" /\ ExtractField(5)
ExtractCreated == pc = "extract" /\ ExtractField(6)

\* the loop ends: the range is exhausted, nothing remains, or no branch is taken
ExtractBreak ==
    /\ pc = "extract"
    /\ (iter = MaxIterations \/ remaining = <<>>
            \/ FirstTaking(remaining, fields[1]) = 0)
    /\ pc' = "build"
    /\ UNCHANGED <<today, taskVars, matchVars, execVars, lineVars, queryVars,
                   resolveVars, composeVars, vaultVars, clockVars,
                   headingVars>>

\* return Task(status=status_char, description=description.strip(), ...)
BuildTask ==
    /\ pc = "build"
    /\ task' = Some(MkTask(TaskRegexMatch(line)[1].status, Strip(remaining),
                           fields[1].priority, fields[1].start_date,
                           fields[1].scheduled_date, fields[1].due_date,
                           fields[1].done_date, fields[1].created_date))
    /\ pc' = "done"
    /\ UNCHANGED <<today, inText, inTokens, line, content, remaining, fields,
                   iter, stripped, matchVars, execVars, lineVars, queryVars,
                   resolveVars, composeVars, vaultVars, clockVars,
                   headingVars>>

TaskNext ==
    \/ TaskNoMatch \/ TaskRejectBracket \/ ExtractEnter
    \/ ExtractPriority \/ ExtractDone \/ ExtractScheduled \/ ExtractDue
    \/ ExtractStart \/ ExtractCreated
    \/ ExtractBreak \/ BuildTask

SpecTask == TaskInit /\ [][TaskNext]_vars

-----------------------------------------------------------------------------
(* Properties of parse_task_line *)

\* the field type of a metadata token, read off its glyph
TokenKind(tok) ==
    CASE tok[1] \in {G_HIGHEST, G_HIGH, G_MEDIUM, G_LOW, G_LOWEST} -> "priority"
      [] tok[1] = G_DONE                                            -> "done_date"
      [] tok[1] \in {G_SCHED1, G_SCHED2}                             -> "scheduled_date"
      [] tok[1] \in {G_DUE1, G_DUE2, G_DUE3}                         -> "due_date"
      [] tok[1] = G_START                                           -> "start_date"
      [] tok[1] = G_CREATED                                         -> "created_date"

\* the value a metadata token stands for: a priority name, or the calendar
\* date of its payload; None if the payload is no possible calendar date
TokenValue(tok) ==
    IF TokenKind(tok) = "priority"
    THEN Some(CASE tok[1] = G_HIGHEST -> "highest" [] tok[1] = G_HIGH -> "high"
                [] tok[1] = G_MEDIUM -> "medium" [] tok[1] = G_LOW -> "low"
                [] tok[1] = G_LOWEST -> "lowest")
    ELSE LET ymd == IsoParts(tok[Len(tok)])
         IN  IF ymd # None /\ ValidYMD(ymd[1]) THEN ymd ELSE None

WellFormed(tok) == TokenValue(tok) # None

LastToken == inTokens[Len(inTokens)]

\* s without its last n elements
DropLast(s, n) == SubSeq(s, 1, Len(s) - n)

IsSuffix(t, s) ==
    Len(t) <= Len(s) /\ SubSeq(s, Len(s) - Len(t) + 1, Len(s)) = t

\* some metadata token stands at the end of the text
EndsInToken(s) ==
    \/ \E tok \in MetaTokens : TokenKind(tok) = "priority" /\ IsSuffix(tok, s)
    \/ \E i \in 1..Len(s) :
          /\ s[i] \in {G_DONE, G_SCHED1, G_SCHED2, G_DUE1, G_DUE2, G_DUE3,
                       G_START, G_CREATED}
          /\ i < Len(s)
          /\ IsPayload(s[Len(s)])
          /\ \A k \in (i + 1)..(Len(s) - 1) : s[k] \in {SP, VS16}

\* C5 (as claimed): each field type is stripped at most once: once a token
\* of a field type has been stripped from the end of the text, no further
\* token of that type is stripped.
C5_StrippedOnceNeverAgain ==
    \A i, j \in 1..Len(stripped) :
        i # j => stripped[i].kind # stripped[j].kind

\* C5 (amended): each field type is captured at most once: once a stripped
\* token has given its field a value, no further token of that type is
\* stripped, and such a token that reaches the end of the remaining text
\* stays in the description; only a token that gave no value (a date that is
\* no calendar date) may be followed by another stripped token of its type.
C5_FilledOnceNeverAgain ==
    /\ \A i, j \in 1..Len(stripped) :
          i < j /\ stripped[i].kind = stripped[j].kind
              => stripped[i].value = None
    /\ (/\ pc = "done" /\ task # None
        /\ Len(inTokens) >= 2
        /\ WellFormed(LastToken)
        /\ TokenKind(inTokens[Len(inTokens) - 1]) = TokenKind(LastToken))
       => /\ task[1][TokenKind(LastToken)] = TokenValue(LastToken)
          /\ task[1].description = Strip(DropLast(content, Len(LastToken)))
          /\ IsSuffix(inTokens[Len(inTokens) - 1], task[1].description)

\* two tokens of one type end the line: the last one is captured, the one
\* before it stays in the description
C5_Witness ==
    /\ pc = "done" /\ task # None
    /\ Len(inTokens) >= 2
    /\ TokenKind(inTokens[Len(inTokens) - 1]) = "due_date"
    /\ TokenKind(LastToken) = "due_date"
    /\ WellFormed(LastToken)
    /\ task[1].due_date = TokenValue(LastToken)
    /\ IsSuffix(inTokens[Len(inTokens) - 1], task[1].description)

\* the trailing tokens have pairwise distinct field types
DistinctKinds(toks) ==
    \A i, j \in 1..Len(toks) : i # j => TokenKind(toks[i]) # TokenKind(toks[j])

\* C6: if the content is a text T that does not end in a metadata token,
\* followed by well-formed metadata tokens of pairwise distinct field types
\* in any order, the record has the value of every token in its field, every
\* other field absent, and T trimmed as description (tokens inside T stay
\* in the description and set no field).
C6_TrailingTokensCaptured ==
    (/\ pc = "done" /\ task # None
     /\ ~EndsInToken(Strip(inText))
     /\ \A i \in 1..Len(inTokens) : WellFormed(inTokens[i])
     /\ DistinctKinds(inTokens))
    => /\ task[1].description = Strip(inText)
       /\ \A i \in 1..Len(inTokens) :
             task[1][TokenKind(inTokens[i])] = TokenValue(inTokens[i])
       /\ \A k \in 1..Len(FieldOrder) :
             (\A i \in 1..Len(inTokens) : TokenKind(inTokens[i]) # FieldOrder[k])
                 => task[1][FieldOrder[k]] = None

\* three tokens after a text that holds a due token followed by other text:
\* the three fields are set, the due date is not
C6_Witness ==
    /\ pc = "done" /\ task # None
    /\ Len(inTokens) = 3
    /\ DistinctKinds(inTokens)
    /\ \A i \in 1..3 : WellFormed(inTokens[i])
    /\ TokenKind(inTokens[1]) = "created_date"
    /\ TokenKind(inTokens[3]) = "priority"
    /\ inText = <<"a", SP, G_DUE1, SP, "2025-11-11", SP, "b">>
    /\ task[1].description = inText
    /\ task[1].due_date = None
    /\ task[1].priority # None /\ task[1].created_date # None

\* the line ends in a date token whose payload is no calendar date
EndsMalformed == inTokens # <<>> /\ ~WellFormed(LastToken)

\* C7 (as claimed): a trailing date token whose payload is no possible
\* calendar date is removed from the description and its field is absent in
\* the record, which is still returned.
C7_MalformedLeavesFieldAbsent ==
    (pc = "done" /\ EndsMalformed)
    => /\ task # None
       /\ stripped # <<>> /\ stripped[1].text = LastToken
       /\ task[1][TokenKind(LastToken)] = None

\* C7 (amended): a trailing date token whose payload is no possible calendar
\* date is removed from the description and gives its field no value; the
\* field is absent in the record unless another token of the same type,
\* standing before it, is captured afterwards. The record is still returned.
C7_MalformedSetsNoValue ==
    (pc = "done" /\ EndsMalformed)
    => /\ task # None
       /\ stripped # <<>>
       /\ stripped[1] = [kind |-> TokenKind(LastToken), value |-> None,
                         text |-> LastToken]
       /\ \E d \in 0..Len(content) :
             task[1].description = Strip(DropLast(content, Len(LastToken) + d))
       /\ \/ task[1][TokenKind(LastToken)] = None
          \/ \E i \in 2..Len(stripped) :
                /\ stripped[i].kind = TokenKind(LastToken)
                /\ stripped[i].value = task[1][TokenKind(LastToken)]

\* a malformed scheduled token after two other tokens: removed, no value
C7_Witness ==
    /\ pc = "done" /\ EndsMalformed
    /\ Len(inTokens) = 3
    /\ TokenKind(LastToken) = "scheduled_date"
    /\ task # None
    /\ task[1].scheduled_date = None
    /\ task[1].description = Strip(inText)
    /\ Len(stripped) = 3

\* the status characters c for which the line reads, from its start: a run
\* of characters of indent, a list marker, spaces (exactly one if oneSpace),
\* '[', c, ']', and then anything
CheckboxStatus(s, indent, oneSpace) ==
    {s[b + 1] : b \in
        {b \in 2..(Len(s) - 2) :
            /\ s[b] = "[" /\ s[b + 2] = "]"
            /\ \E i \in 0..(b - 2), m \in 1..(b - 1) :
                  /\ i < m
                  /\ \A k \in 1..i : s[k] \in indent
                  /\ \/ m = i + 1 /\ s[m] \in {"-", "*", "+"}
                     \/ /\ m > i + 1
                        /\ \A k \in (i + 1)..(m - 1) : s[k] \in Digits
                        /\ s[m] \in {".", ")"}
                  /\ m < b
                  /\ \A k \in (m + 1)..(b - 1) : s[k] = SP
                  /\ oneSpace => b = m + 2}}

\* C8: no record has the status character '[' or ']': a line whose checkbox
\* bracket holds '[' or ']' yields no record, whatever follows it.
C8_NoBracketStatus ==
    /\ task # None => task[1].status \notin {"[", "]"}
    /\ (pc = "done"
        /\ CheckboxStatus(line, {SP, TAB, FF, NL, ">"}, FALSE) \cap {"[", "]"} # {})
       => task = None

\* a checkbox line whose bracket holds ']' and that has content after it
C8_Witness ==
    /\ pc = "done"
    /\ "]" \in CheckboxStatus(line, {SP, TAB, ">"}, TRUE)
    /\ IsSuffix(<<"a", "]", "]">>, line)
    /\ task = None

\* C9 (as claimed): a record is produced only for a line made of a run of
\* space, tab and '>' characters, a list marker, exactly one space, '[', a
\* status character, ']' and the content; every other line yields none.
C9_OnlyOneSpaceGrammar ==
    (pc = "done" /\ task # None)
        => CheckboxStatus(line, {SP, TAB, ">"}, TRUE) # {}

\* C9 (amended): a record is produced only for a line made of a run of
\* whitespace and '>' characters, a list marker, one or more spaces, '[', a
\* status character, ']' and the content; every other line (a tab between
\* marker and bracket, a list item without a checkbox) yields none.
C9_OnlySpacesGrammar ==
    (pc = "done" /\ task # None)
        => task[1].status \in CheckboxStatus(line, {SP, TAB, FF, NL, ">"}, FALSE)

\* a record from a numbered line with two spaces between the marker and the
\* bracket
C9_Witness ==
    /\ pc = "done"
    /\ task # None
    /\ CheckboxStatus(line, {SP, TAB, ">"}, TRUE) = {}
    /\ CheckboxStatus(line, {SP, TAB, ">"}, FALSE) = {"x"}
    /\ line[1] = "1"

\* what stands between the text and the tokens of the line
SepOf(text) == (CHOOSE ts \in TextSeps : ts[1] = text)[2]

\* the rightmost token that has a well-formed token of its own field type to
\* its right: the first token, from the end, that cannot be taken; 0 if none
StopIndex(toks) ==
    LET blocked == {j \in 1..Len(toks) : \E i \in (j + 1)..Len(toks) :
                        /\ TokenKind(toks[i]) = TokenKind(toks[j])
                        /\ WellFormed(toks[i])}
    IN  IF blocked = {} THEN 0 ELSE MaxOf(blocked)

(* C27: extraction stops at the first token, from the end, whose field      *)
(* already holds a value: that token and every token to its left stay in    *)
(* the description, and a field that only tokens to its left name stays     *)
(* absent.                                                                  *)
C27_StopsAtFirstBlockedToken ==
    (/\ pc = "done" /\ task # None
     /\ inTokens # <<>>
     /\ ~EndsInToken(Strip(inText))
     /\ StopIndex(inTokens) > 0)
    => LET j == StopIndex(inTokens) IN
       /\ Len(stripped) = Len(inTokens) - j
       /\ task[1].description =
              Strip(TaskContent(inText, SepOf(inText), SubSeq(inTokens, 1, j)))
       /\ task[1][TokenKind(inTokens[j])] # None
       /\ \A i \in 1..j :
             (\A k \in (j + 1)..Len(inTokens) :
                    TokenKind(inTokens[k]) # TokenKind(inTokens[i]))
                 => task[1][TokenKind(inTokens[i])] = None

\* 'a <priority> <due d1> <due d2>': the due date is d2, the priority is
\* absent, the priority token and the first due token stay in the description
C27_Witness ==
    /\ pc = "done" /\ task # None
    /\ inText = <<"a", SP, G_DUE1, SP, "2025-11-11", SP, "b">>
    /\ inTokens = <<<<G_HIGHEST>>, <<G_DUE2, "2025-01-01">>,
                    <<G_DUE1, SP, "2025-11-13">>>>
    /\ task[1].due_date = Some(D3)
    /\ task[1].priority = None
    /\ task[1].description =
           inText \o <<SP, G_HIGHEST, SP, G_DUE2, "2025-01-01">>

\* the field types whose pattern matches the end of the text
MatchingKinds(s) ==
    {FieldOrder[k] : k \in {i \in 1..Len(FieldOrder) :
                                SearchField(FieldOrder[i], s) # None}}

\* the field types whose branch an iteration may take
TakingKinds(s, flds) ==
    {FieldOrder[k] : k \in {i \in 1..Len(FieldOrder) :
                                Takes(FieldOrder[i], s, flds)}}

\* the order of the code with the k-th pattern moved to the front
FrontOrder(k) ==
    [i \in 1..Len(FieldOrder) |-> IF i = 1 THEN k ELSE IF i <= k THEN i - 1 ELSE i]

\* orders in which the six patterns can be tried: every pattern is tried
\* first in one of them, so if none of them changes the branch taken, no
\* permutation does
PatternOrders == {FrontOrder(k) : k \in 1..Len(FieldOrder)}

\* the first field type of the set S when the six patterns are tried in the
\* order p; "none" if S is empty
FirstIn(p, S) ==
    IF S = {} THEN "none"
    ELSE FieldOrder[p[MinOf({i \in 1..Len(FieldOrder) : FieldOrder[p[i]] \in S})]]

(* C28: at every iteration at most one of the six patterns matches the end  *)
(* of the remaining text, so the branch taken, and with it the fields and   *)
(* the description, is the same for every order of trying the patterns.     *)
C28_OneBranchPerIteration ==
    pc = "extract" =>
        /\ Cardinality(MatchingKinds(remaining)) <= 1
        /\ Cardinality(TakingKinds(remaining, fields[1])) <= 1
        /\ LET taking == TakingKinds(remaining, fields[1])
               code   == IF FirstTaking(remaining, fields[1]) = 0 THEN "none"
                         ELSE FieldOrder[FirstTaking(remaining, fields[1])]
           IN  \A p \in PatternOrders : FirstIn(p, taking) = code

\* an iteration that takes the last of the six branches, which a different
\* order would try first
C28_Witness ==
    /\ pc = "extract"
    /\ MatchingKinds(remaining) = {"created_date"}
    /\ FirstTaking(remaining, fields[1]) = Len(FieldOrder)
    /\ fields[1].due_date # None
    /\ iter = 1

-----------------------------------------------------------------------------
(* parser.extract_emoji_fields and parser.parse_task_line as functions *)

\* the iterations of "for _ in range(20)" when n of them are left
RECURSIVE ExtractLoop(_, _, _)
ExtractLoop(rem, flds, n) ==
    IF n = 0 \/ rem = <<>> \/ FirstTaking(rem, flds) = 0
    THEN [fields |-> flds, remaining |-> rem]
    ELSE LET kind  == FieldOrder[FirstTaking(rem, flds)]
             start == SearchField(kind, rem)[1]
         IN  ExtractLoop(Strip(SubSeq(rem, 1, start - 1)),
                         [flds EXCEPT ![kind] = FieldValue(kind, rem, start)],
                         n - 1)

\* extract_emoji_fields(content): the fields and the remaining description
extract_emoji_fields(text) == ExtractLoop(Strip(text), EmptyFields, MaxIterations)

\* parse_task_line(line): a Task, or None
parse_task_line(ln) ==
    LET m == TaskRegexMatch(ln) IN
    IF m = None THEN None
    ELSE IF RejectedStatus(m[1].status) THEN None
    ELSE LET e == extract_emoji_fields(m[1].content)
         IN  Some(MkTask(m[1].status, Strip(e.remaining), e.fields.priority,
                         e.fields.start_date, e.fields.scheduled_date,
                         e.fields.due_date, e.fields.done_date,
                         e.fields.created_date))

\* the function and the loop of SpecTask build the same record
ParseTaskLineAgrees == pc = "done" => task = parse_task_line(line)

-----------------------------------------------------------------------------
(* executor.read_vault_tasks and tasks.query *)

MaxFiles == 2

CR == "\r"

\* line.rstrip('\n\r')
RECURSIVE RStripEOL(_)
RStripEOL(s) ==
    IF s # <<>> /\ s[Len(s)] \in {NL, CR} THEN RStripEOL(SubSeq(s, 1, Len(s) - 1))
    ELSE s

Checkbox(c) == <<"-", SP, "[", c, "]", SP>>

V_one   == Checkbox(SP) \o <<"one", NL>>
V_two   == Checkbox("x") \o <<"two", SP, G_DUE1, SP, "2025-11-11", CR, NL>>
V_empty == Checkbox(SP) \o <<NL>>
V_meta  == Checkbox(SP) \o <<G_HIGH, SP, G_DUE1, SP, "2025-11-13", NL>>
V_bad   == Checkbox("/") \o <<G_DUE2, SP, "2025-13-01">>
V_text  == <<"plain", SP, "text", NL>>
V_last  == Checkbox(SP) \o <<"three", SP, G_SCHED1, SP, "2025-11-12">>

\* a file that is read to its end
Readable(f) == [lines |-> f, fault |-> None]

\* a file whose reading fails: open() raises OSError (at = 0), or the read of
\* line number at raises OSError or UnicodeDecodeError (at = number of lines
\* + 1: the read that would find the end of the file)
Failing(f, at, kind) == [lines |-> f, fault |-> Some([at |-> at, kind |-> kind])]

\* the markdown files of a vault
VaultEntries ==
    {Readable(<<V_one, V_meta, V_two>>),
     Failing(<<V_one, V_meta, V_two>>, 2, "OSError"),
     Failing(<<V_one, V_meta, V_two>>, 2, "UnicodeDecodeError"),
     Readable(<<V_empty, V_text, V_last>>),
     Failing(<<V_empty, V_text, V_last>>, 0, "OSError"),
     Readable(<<V_two, V_bad>>),
     Failing(<<V_two, V_bad>>, 3, "OSError"),
     Readable(<<>>)}

\* query texts, as lists of lines
VaultQueries ==
    {<<>>,
     <<L_NotDone>>,
     <<L_Done, <<SP>>, L_HasDue>>,
     <<L_Junk, L_Done>>,
     <<L_NotDone, <<"happens", SP, "today">>>>}

VaultInit ==
    /\ today = D2
    /\ vault \in BoundedSeq(VaultEntries, MaxFiles)
    /\ \/ /\ caller = "query"
          /\ filter_invalid = TRUE
          /\ qraw \in VaultQueries
       \/ /\ caller = "read_vault_tasks"
          /\ filter_invalid \in BOOLEAN
          /\ qraw = <<>>
    /\ pc = "read_vault_tasks"
    /\ query_source = Join(qraw, <<NL>>)
    /\ tasks = <<>> /\ origins = <<>> /\ file_i = 0 /\ line_i = 0
    /\ lines = <<>> /\ li = 0 /\ pfilters = <<>> /\ errors = <<>>
    /\ query = None /\ raised = None
    /\ filters = <<>> /\ result = None /\ fi = 0
    /\ IdleMatch /\ IdleLine /\ IdleTask /\ IdleResolve /\ IdleCompose
    /\ IdleClock
    /\ IdleHeading

\* the fault of the current file does not strike at the k-th read
NoFaultAt(k) ==
    IF vault[file_i].fault = None THEN TRUE ELSE vault[file_i].fault[1].at # k

\* open() of the file raises
OpenFault(f) == IF f.fault = None THEN FALSE ELSE f.fault[1].at = 0

FaultAt(k, kind) ==
    /\ vault[file_i].fault # None
    /\ vault[file_i].fault[1].at = k
    /\ vault[file_i].fault[1].kind = kind

\* the line the loop is about to read, without its line end
CurrentLine == RStripEOL(vault[file_i].lines[line_i + 1])

\* tasks = []
ReadVaultEnter ==
    /\ pc = "read_vault_tasks"
    /\ tasks' = <<>>
    /\ origins' = <<>>
    /\ file_i' = 0
    /\ pc' = "next_file"
    /\ UNCHANGED <<today, filters, result, fi, vault, line_i, filter_invalid,
                   caller, matchVars, lineVars, queryVars, taskVars,
                   resolveVars, composeVars, clockVars, headingVars>>

\* for md_file in vault_path.rglob("*.md"): open(md_file, ...) succeeds
OpenFile ==
    /\ pc = "next_file"
    /\ file_i < Len(vault)
    /\ ~OpenFault(vault[file_i + 1])
    /\ file_i' = file_i + 1
    /\ line_i' = 0
    /\ pc' = "read_lines"
    /\ UNCHANGED <<today, execVars, vault, origins, filter_invalid, caller,
                   matchVars, lineVars, queryVars, taskVars, resolveVars,
                   composeVars, clockVars, headingVars>>

\* open(md_file, ...) raises OSError: except (IOError, OSError): continue
OpenFails ==
    /\ pc = "next_file"
    /\ file_i < Len(vault)
    /\ OpenFault(vault[file_i + 1])
    /\ file_i' = file_i + 1
    /\ UNCHANGED <<pc, today, execVars, vault, line_i, origins, filter_invalid,
                   caller, matchVars, lineVars, queryVars, taskVars,
                   resolveVars, composeVars, clockVars, headingVars>>

\* for line_num, line in enumerate(f, start=1): the line is not a task
ReadLineSkip ==
    /\ pc = "read_lines"
    /\ line_i < Len(vault[file_i].lines)
    /\ NoFaultAt(line_i + 1)
    /\ parse_task_line(CurrentLine) = None
    /\ line_i' = line_i + 1
    /\ UNCHANGED <<pc, today, execVars, vault, file_i, origins, filter_invalid,
                   caller, matchVars, lineVars, queryVars, taskVars,
                   resolveVars, composeVars, clockVars, headingVars>>

\* if not filter_invalid or task.is_valid(): tasks.append(task)
ReadLineAppend ==
    /\ pc = "read_lines"
    /\ line_i < Len(vault[file_i].lines)
    /\ NoFaultAt(line_i + 1)
    /\ parse_task_line(CurrentLine) # None
    /\ ~filter_invalid \/ is_valid(parse_task_line(CurrentLine)[1])
    /\ tasks' = Append(tasks, parse_task_line(CurrentLine)[1])
    /\ origins' = Append(origins, [file |-> file_i, line_number |-> line_i + 1])
    /\ line_i' = line_i + 1
    /\ UNCHANGED <<pc, today, filters, result, fi, vault, file_i,
                   filter_invalid, caller, matchVars, lineVars, queryVars,
                   taskVars, resolveVars, composeVars, clockVars,
                   headingVars>>

\* the task is invalid and filter_invalid is set: it is not appended
ReadLineDiscard ==
    /\ pc = "read_lines"
    /\ line_i < Len(vault[file_i].lines)
    /\ NoFaultAt(line_i + 1)
    /\ parse_task_line(CurrentLine) # None
    /\ filter_invalid /\ ~is_valid(parse_task_line(CurrentLine)[1])
    /\ line_i' = line_i + 1
    /\ UNCHANGED <<pc, today, execVars, vault, file_i, origins, filter_invalid,
                   caller, matchVars, lineVars, queryVars, taskVars,
                   resolveVars, composeVars, clockVars, headingVars>>

\* reading the next line raises OSError: except (IOError, OSError): continue
ReadFails ==
    /\ pc = "read_lines"
    /\ line_i + 1 <= Len(vault[file_i].lines) + 1
    /\ FaultAt(line_i + 1, "OSError")
    /\ pc' = "next_file"
    /\ UNCHANGED <<today, execVars, vaultVars, matchVars, lineVars, queryVars,
                   taskVars, resolveVars, composeVars, clockVars,
                   headingVars>>

\* reading the next line raises UnicodeDecodeError, which no handler of
\* read_vault_tasks or query catches
ReadDecodeError ==
    /\ pc = "read_lines"
    /\ line_i + 1 <= Len(vault[file_i].lines) + 1
    /\ FaultAt(line_i + 1, "UnicodeDecodeError")
    /\ pc' = "vault_raised"
    /\ UNCHANGED <<today, execVars, vaultVars, matchVars, lineVars, queryVars,
                   taskVars, resolveVars, composeVars, clockVars,
                   headingVars>>

\* the end of the file is reached and the file is closed
CloseFile ==
    /\ pc = "read_lines"
    /\ line_i = Len(vault[file_i].lines)
    /\ NoFaultAt(line_i + 1)
    /\ pc' = "next_file"
    /\ UNCHANGED <<today, execVars, vaultVars, matchVars, lineVars, queryVars,
                   taskVars, resolveVars, composeVars, clockVars,
                   headingVars>>

\* return tasks, to the caller of read_vault_tasks
ReadVaultReturn ==
    /\ pc = "next_file"
    /\ file_i = Len(vault)
    /\ caller = "read_vault_tasks"
    /\ pc' = "vault_returned"
    /\ UNCHANGED <<today, execVars, vaultVars, matchVars, lineVars, queryVars,
                   taskVars, resolveVars, composeVars, clockVars,
                   headingVars>>

\* tasks = read_vault_tasks(vault_path); return execute_query(tasks, ...)
QueryExecute ==
    /\ pc = "next_file"
    /\ file_i = Len(vault)
    /\ caller = "query"
    /\ pc' = "execute_query"
    /\ UNCHANGED <<today, execVars, vaultVars, matchVars, lineVars, queryVars,
                   taskVars, resolveVars, composeVars, clockVars,
                   headingVars>>

VaultNext ==
    \/ ReadVaultEnter \/ OpenFile \/ OpenFails
    \/ ReadLineSkip \/ ReadLineAppend \/ ReadLineDiscard
    \/ ReadFails \/ ReadDecodeError \/ CloseFile
    \/ ReadVaultReturn \/ QueryExecute
    \/ QueryNext

SpecVault == VaultInit /\ [][VaultNext]_vars

\* the task a line of a file parses to, or None
LineTask(k, n) == parse_task_line(RStripEOL(vault[k].lines[n]))

\* the line yields a record that the scan keeps
Kept(k, n) ==
    IF LineTask(k, n) = None THEN FALSE
    ELSE filter_invalid => is_valid(LineTask(k, n)[1])

\* the records a file contributes when an unreadable file contributes none
FileOrigins(k) ==
    IF vault[k].fault # None THEN <<>>
    ELSE SelectSeq([n \in 1..Len(vault[k].lines) |->
                        [file |-> k, line_number |-> n]],
                   LAMBDA o : Kept(k, o.line_number))

ExpectedOrigins == Flatten([k \in 1..Len(vault) |-> FileOrigins(k)])

\* read_vault_tasks has returned its list
ScanReturned ==
    pc \notin {"read_vault_tasks", "next_file", "read_lines", "vault_raised"}

(* C23: a file that cannot be read, at open() or at a later line,           *)
(* contributes no record, and the scan goes on: it returns exactly the      *)
(* records of the readable files, in scan order.                            *)
C23_UnreadableContributesNothing ==
    /\ pc # "vault_raised"
    /\ ScanReturned =>
        /\ origins = ExpectedOrigins
        /\ tasks = [i \in 1..Len(origins) |->
                        LineTask(origins[i].file, origins[i].line_number)[1]]

\* lines whose content is empty or only metadata tokens
MetadataOnlyLines == {V_empty, V_meta, V_bad}

DescriptionOf(t) == Strip(t.description)

(* C24: query returns only tasks with a non-empty trimmed description: a    *)
(* checkbox line whose content is empty or only metadata tokens is parsed   *)
(* and then dropped by read_vault_tasks, before any filter is applied.      *)
C24_ReturnedTasksHaveDescription ==
    caller = "query" =>
        /\ \A i \in 1..Len(tasks) : DescriptionOf(tasks[i]) # <<>>
        /\ result # None =>
              \A i \in 1..Len(result[1]) : DescriptionOf(result[1][i]) # <<>>
        /\ \A k \in 1..Len(vault) : \A n \in 1..Len(vault[k].lines) :
              vault[k].lines[n] \in MetadataOnlyLines =>
                  /\ LineTask(k, n) # None
                  /\ DescriptionOf(LineTask(k, n)[1]) = <<>>
                  /\ \A i \in 1..Len(origins) :
                        origins[i] # [file |-> k, line_number |-> n]

\* a query that returned tasks of a vault in which a metadata-only line and
\* an empty checkbox were read
C24_Witness ==
    /\ caller = "query"
    /\ pc = "returned"
    /\ filters # <<>>
    /\ result[1] # <<>>
    /\ Len(result[1]) < Len(tasks)
    /\ \E k \in 1..Len(vault) : vault[k] = Readable(<<V_one, V_meta, V_two>>)
    /\ \E k \in 1..Len(vault) : vault[k] = Readable(<<V_empty, V_text, V_last>>)

\* the query text of the usage example
UsageExample == <<L_NotDone, <<"happens", SP, "today">>>>

(* C25: the query text of the usage example, 'not done' and 'happens today' *)
(* on two lines, is accepted: query raises no error and returns the not-done *)
(* tasks that happen today.                                                 *)
C25_UsageExampleAccepted ==
    (caller = "query" /\ qraw = UsageExample) =>
        /\ pc # "raised"
        /\ pc = "returned" =>
              result = Some(SelectSeq(tasks, LAMBDA t :
                            /\ ~is_done(t)
                            /\ Matches(HappensFilter("on", today), t)))

-----------------------------------------------------------------------------
(* parser.extract_emoji_fields on long runs of trailing tokens *)

MaxRun == 22

B_Done    == <<G_DONE, SP, "2025-13-01">>
B_Sched   == <<G_SCHED2, VS16, SP, SP, "2025-02-30">>
B_Due     == <<G_DUE3, VS16, SP, "2025-13-01">>
B_Start   == <<G_START, "2025-02-30">>
B_Created == <<G_CREATED, SP, "2025-02-30">>

\* what a run of trailing tokens repeats, from left to right
RunPatterns ==
    {<<B_Due>>,
     <<B_Sched, B_Due>>,
     <<B_Done, B_Start, B_Created>>,
     <<B_Due, <<G_DUE1, SP, "2025-11-13">>>>,
     <<<<G_HIGH>>, B_Due, B_Sched, B_Start>>,
     <<<<G_START, SP, "2024-02-29">>, B_Created, B_Done>>}

\* the first n tokens of the pattern p repeated
RunOf(p, n) == [i \in 1..n |-> p[((i - 1) % Len(p)) + 1]]

LoopInit ==
    /\ pc = "parse_task_line"
    /\ today = D2
    /\ inText = <<"T">>
    /\ \E p \in RunPatterns, n \in 0..MaxRun :
          /\ inTokens = RunOf(p, n)
          /\ line = Checkbox(SP) \o TaskContent(<<"T">>, <<SP>>, RunOf(p, n))
    /\ content = <<>> /\ remaining = <<>> /\ fields = None /\ iter = 0
    /\ stripped = <<>> /\ task = None
    /\ IdleMatch /\ IdleExec /\ IdleLine /\ IdleQuery /\ IdleResolve
    /\ IdleCompose /\ IdleVault
    /\ IdleClock
    /\ IdleHeading

LoopNext ==
    \/ ExtractEnter
    \/ ExtractPriority \/ ExtractDone \/ ExtractScheduled \/ ExtractDue
    \/ ExtractStart \/ ExtractCreated
    \/ ExtractBreak \/ BuildTask

SpecLoop == LoopInit /\ [][LoopNext]_vars /\ WF_vars(LoopNext)

\* no token of the run has a well-formed token of its own field type to its
\* right: without a limit the loop would strip the whole run
Strippable(toks) ==
    \A i, j \in 1..Len(toks) :
        (i < j /\ TokenKind(toks[i]) = TokenKind(toks[j])) => ~WellFormed(toks[j])

(* C26: extract_emoji_fields ends after at most 20 iterations; an iteration *)
(* that does not end the loop strictly shortens the remaining text; at most *)
(* 20 tokens are stripped, more than six only when some are malformed; of a *)
(* run of more than 20 strippable tokens the ones beyond the 20th from the  *)
(* end stay in the description.                                             *)
C26_AtMostTwentyIterations ==
    /\ [](/\ iter <= MaxIterations
          /\ Len(stripped) = iter
          /\ Len(stripped) > Len(FieldOrder) =>
                \E i \in 1..Len(stripped) : stripped[i].value = None
          /\ (pc = "done" /\ Strippable(inTokens)
                /\ Len(inTokens) > MaxIterations) =>
                /\ iter = MaxIterations
                /\ task[1].description =
                       TaskContent(inText, <<SP>>,
                                   DropLast(inTokens, MaxIterations)))
    /\ [][iter' = iter + 1 => Len(remaining') < Len(remaining)]_vars
    /\ <>(pc = "done")

\* a run of 22 malformed tokens: 20 iterations, two tokens left in the
\* description
C26_Witness ==
    /\ pc = "done"
    /\ Len(inTokens) = 22
    /\ Strippable(inTokens)
    /\ iter = MaxIterations
    /\ Len(stripped) = 20
    /\ task[1].description = <<"T", SP>> \o B_Sched \o <<SP>> \o B_Due
    /\ task[1].due_date = None /\ task[1].scheduled_date = None

-----------------------------------------------------------------------------
(* query_parser.parse_query while the date changes: resolve_date is called  *)
(* without a reference date and reads date.today() at every call            *)

MaxTicks == 2

L_DueToday == <<"due", SP, "on", SP, "today">>
L_HappensTomorrow == <<"happens", SP, "before", SP, "tomorrow">>

ClockLines ==
    {<<>>,
     L_NotDone,
     L_DueToday,
     L_HappensTomorrow,
     <<"due", SP, "on", SP, "2025-11-12">>,
     BoolLine("OR", L_DueToday, <<"happens", SP, "on", SP, "today">>),
     L_Junk}

\* the line reaches the boolean branch of parse_line
IsBooleanLine(s) ==
    /\ ~MatchStatusDone(s) /\ ~MatchStatusNotDone(s)
    /\ MatchDateFilter(s) = None /\ MatchHappensFilter(s) = None
    /\ MatchHasFilter(s) = None /\ MatchPriorityFilter(s) = None
    /\ BooleanSplits(s) # {}

\* parse_line of a boolean line whose left operand is parsed while
\* date.today() returns ref and whose right operand while it returns ref2
ParseLineAcross(text, ref, ref2) ==
    LET s  == Strip(text)
        k  == BooleanSplit(s)
        j  == SkipSpaces(s, k + 1)
        j2 == SkipSpaces(s, j + 1)
    IN  BooleanOf(s[j], parse_line(SubSeq(s, 2, k - 1), ref),
                  parse_line(SubSeq(s, j2 + 1, Len(s) - 1), ref2))

ClockInit ==
    /\ pc = "execute_query"
    /\ today \in {D1, <<2025, 12, 31>>}
    /\ clock_start = Some(today)
    /\ ticks = 0
    /\ qraw \in BoundedSeq(ClockLines, MaxLines)
    /\ query_source = Join(qraw, <<NL>>)
    /\ tasks = <<>>
    /\ lines = <<>> /\ li = 0 /\ pfilters = <<>> /\ errors = <<>>
    /\ query = None /\ raised = None
    /\ filters = <<>> /\ result = None /\ fi = 0
    /\ IdleMatch /\ IdleLine /\ IdleTask /\ IdleResolve /\ IdleCompose
    /\ IdleVault
    /\ IdleHeading

\* the day ends between the parsing of two lines
Midnight ==
    /\ pc = "parse_loop"
    /\ ticks < MaxTicks
    /\ today' = NextDay(today)
    /\ ticks' = ticks + 1
    /\ UNCHANGED <<pc, clock_start, matchVars, execVars, lineVars, queryVars,
                   taskVars, resolveVars, composeVars, vaultVars,
                   headingVars>>

\* the day ends between the parsing of the two operands of a boolean line
ParseQueryFilterAcrossMidnight ==
    /\ pc = "parse_loop"
    /\ li < Len(lines)
    /\ ticks < MaxTicks
    /\ IsBooleanLine(Strip(lines[li + 1]))
    /\ ParseLineAcross(lines[li + 1], today, NextDay(today)) # None
    /\ pfilters' = Append(pfilters,
                          ParseLineAcross(lines[li + 1], today, NextDay(today))[1])
    /\ li' = li + 1
    /\ today' = NextDay(today)
    /\ ticks' = ticks + 1
    /\ UNCHANGED <<pc, clock_start, qraw, query_source, lines, errors, query,
                   raised, matchVars, execVars, lineVars, taskVars,
                   resolveVars, composeVars, vaultVars, headingVars>>

ClockNext ==
    \/ Midnight \/ ParseQueryFilterAcrossMidnight
    \/ ParseQueryEnter \/ ParseQuerySkip \/ ParseQueryFilter \/ ParseQueryError
    \/ ParseQueryReturnError \/ ParseQueryReturn

SpecClock == ClockInit /\ [][ClockNext]_vars

\* the filters of the lines ls when every date is resolved against d
RECURSIVE FiltersAt(_, _)
FiltersAt(ls, d) ==
    IF ls = <<>> THEN <<>>
    ELSE (IF Strip(Head(ls)) = <<>> \/ parse_line(Strip(Head(ls)), d) = None
          THEN <<>> ELSE <<parse_line(Strip(Head(ls)), d)[1]>>)
         \o FiltersAt(Tail(ls), d)

(* C29: within one parse_query call every relative date is resolved against *)
(* the same reference date, the date at which the call started, even when   *)
(* the current date advances while the lines are parsed.                    *)
C29_OneReferenceDate ==
    (pc = "parsed" /\ query[1].error = None) =>
        query[1].filters = FiltersAt(lines, clock_start[1])

-----------------------------------------------------------------------------
(* implementation.find_parent_chain *)

MaxHeadings == 3

\* the level of a heading as parse_headings returns it: a run of '#'
Levels == {<<"#">>, <<"#", "#">>, <<"#", "#", "#">>}

Titles == {"A", "B", "T"}

HeadingPool == {[level |-> l, title |-> t] : l \in Levels, t \in Titles}

\* a >= b on two Python strings that are runs of '#': the longer run is the
\* greater string
LevelGE(a, b) == Len(a) >= Len(b)

\* a loop condition that keeps a heading of the same level on the stack
ShouldPop_Strict(st, lvl) ==
    st # <<>> /\ LevelGE(st[Len(st)].level, lvl) /\ st[Len(st)].level # lvl

\* while stack and stack[-1][0] >= level
ShouldPop(st, lvl) == st # <<>> /\ LevelGE(st[Len(st)].level, lvl)

HeadingInit ==
    /\ pc = "for_heading"
    /\ today = D2
    /\ headings \in BoundedSeq(HeadingPool, MaxHeadings)
    /\ heading_target \in {"T", "B"}
    /\ stack = <<>>
    /\ hi = 0
    /\ chain = None
    /\ IdleMatch /\ IdleExec /\ IdleLine /\ IdleQuery /\ IdleTask
    /\ IdleResolve /\ IdleCompose /\ IdleVault /\ IdleClock

\* for level, title in headings: the next heading
NextHeading ==
    /\ pc = "for_heading"
    /\ hi < Len(headings)
    /\ hi' = hi + 1
    /\ pc' = "while_pop"
    /\ UNCHANGED <<today, headings, heading_target, stack, chain, matchVars,
                   execVars, lineVars, queryVars, taskVars, resolveVars,
                   composeVars, vaultVars, clockVars>>

\* stack.pop()
PopHeading ==
    /\ pc = "while_pop"
    /\ ShouldPop(stack, headings[hi].level)
    /\ stack' = SubSeq(stack, 1, Len(stack) - 1)
    /\ UNCHANGED <<pc, today, headings, heading_target, hi, chain, matchVars,
                   execVars, lineVars, queryVars, taskVars, resolveVars,
                   composeVars, vaultVars, clockVars>>

\* stack.append((level, title))
PushHeading ==
    /\ pc = "while_pop"
    /\ ~ShouldPop(stack, headings[hi].level)
    /\ stack' = Append(stack, headings[hi])
    /\ pc' = "pushed"
    /\ UNCHANGED <<today, headings, heading_target, hi, chain, matchVars,
                   execVars, lineVars, queryVars, taskVars, resolveVars,
                   composeVars, vaultVars, clockVars>>

\* if title == target: return [t for _, t in stack[:-1]]
ReturnChain ==
    /\ pc = "pushed"
    /\ headings[hi].title = heading_target
    /\ chain' = Some([i \in 1..(Len(stack) - 1) |-> stack[i].title])
    /\ pc' = "chain_returned"
    /\ UNCHANGED <<today, headings, heading_target, stack, hi, matchVars,
                   execVars, lineVars, queryVars, taskVars, resolveVars,
                   composeVars, vaultVars, clockVars>>

\* the title is not the target: the loop goes on
NotTarget ==
    /\ pc = "pushed"
    /\ headings[hi].title # heading_target
    /\ pc' = "for_heading"
    /\ UNCHANGED <<today, headingVars, matchVars, execVars, lineVars,
                   queryVars, taskVars, resolveVars, composeVars, vaultVars,
                   clockVars>>

\* return None
ReturnNone ==
    /\ pc = "for_heading"
    /\ hi = Len(headings)
    /\ chain' = None
    /\ pc' = "none_returned"
    /\ UNCHANGED <<today, headings, heading_target, stack, hi, matchVars,
                   execVars, lineVars, queryVars, taskVars, resolveVars,
                   composeVars, vaultVars, clockVars>>

HeadingNext ==
    \/ NextHeading \/ PopHeading \/ PushHeading
    \/ ReturnChain \/ NotTarget \/ ReturnNone

SpecHeadings == HeadingInit /\ [][HeadingNext]_vars

\* the nearest heading before the i-th of strictly lower level; 0 if none
ParentOf(i) ==
    LET lower == {j \in 1..(i - 1) :
                      Len(headings[j].level) < Len(headings[i].level)}
    IN  IF lower = {} THEN 0 ELSE MaxOf(lower)

\* the titles of the ancestors of the i-th heading, outermost first
RECURSIVE AncestorTitles(_)
AncestorTitles(i) ==
    IF ParentOf(i) = 0 THEN <<>>
    ELSE Append(AncestorTitles(ParentOf(i)), headings[ParentOf(i)].title)

\* the headings titled as the target
Targets == {i \in 1..Len(headings) : headings[i].title = heading_target}

(* C30: find_parent_chain returns None iff no heading has the target title; *)
(* otherwise it returns, for the first heading with that title, the titles  *)
(* of its ancestors, outermost first (the empty list if it has none), each  *)
(* ancestor being the nearest preceding heading of strictly lower level;    *)
(* the levels on the stack strictly increase from bottom to top.            *)
C30_ParentChain ==
    /\ pc = "none_returned" => Targets = {}
    /\ pc = "chain_returned" =>
          /\ Targets # {}
          /\ hi = MinOf(Targets)
          /\ chain = Some(AncestorTitles(MinOf(Targets)))
    /\ (pc \in {"none_returned", "chain_returned"} /\ Targets = {}) =>
          (pc = "none_returned" /\ chain = None)
    /\ pc \in {"pushed", "for_heading", "chain_returned", "none_returned"} =>
          \A i \in 1..(Len(stack) - 1) :
              Len(stack[i].level) < Len(stack[i + 1].level)

\* a heading of n '#' characters
Heading(n, t) == [level |-> [i \in 1..n |-> "#"], title |-> t]

\* '# A', '## B', '## T': B is popped when T arrives, the chain of T is A
C30_Witness ==
    /\ pc = "chain_returned"
    /\ heading_target = "T"
    /\ headings = <<Heading(1, "A"), Heading(2, "B"), Heading(2, "T")>>
    /\ stack = <<Heading(1, "A"), Heading(2, "T")>>
    /\ chain = Some(<<"A">>)

=============================================================================
